---- MODULE Spec2Model ----
(***************************************************************************)
(* EcoCircle: the posts store (postsReducer and the PostsProvider actions  *)
(* of src/context/postsContext.tsx), the gateway PostsService of           *)
(* src/services/postsService.ts over the remote tables of the schema, and  *)
(* the moderation service of src/services/geminiValidationService.ts.      *)
(*                                                                         *)
(* JavaScript objects are records whose domain is the set of properties    *)
(* the object has: a property that is undefined is absent from the domain. *)
(* null is the empty sequence where a value may be null (currentPost), and *)
(* the string "null" for the error slot.  Text is a sequence of tokens.    *)
(***************************************************************************)
EXTENDS Integers, Sequences, FiniteSets, TLC

VARIABLES
  state,      \* the PostsState snapshot held by useReducer
  session,    \* the signed-in user, or NoUser; isUser is session # NoUser
  db,         \* the remote store: tables posts, likes, comments, storage objects
  calls,      \* the provider calls in flight, oldest first
  budget,     \* number of provider calls that may still be budget
  last,       \* what the most recently resolved provider call returned
  hist,       \* the last two dispatched actions, each with the snapshot before it
  steps,      \* number of transitions dispatched directly (reducer runs)
  mark,       \* likes: the last moment the feed was fetched with nothing else going on
  vin,        \* moderation: the submission under validation and the adapter's answers
  vout,       \* moderation: the ValidationResult, once computed
  daily       \* daily analytics: the clock, AsyncStorage and the calls in flight

vars == <<state, session, db, calls, budget, last, hist, steps, mark, vin, vout, daily>>

(***************************************************************************)
(* Bounds                                                                  *)
(***************************************************************************)
MaxSteps == 2

Me == "me"
Other == "other"
NoUser == "none"
Null == "null"

(***************************************************************************)
(* postsReducer                                                            *)
(***************************************************************************)
initialState ==
  [posts |-> <<>>, userPosts |-> <<>>, currentPost |-> <<>>, comments |-> <<>>,
   loading |-> FALSE, error |-> Null, refreshing |-> FALSE]

\* { ...obj, ...props }: the properties of props override or extend those of obj
Spread(obj, props) ==
  [f \in (DOMAIN obj) \cup (DOMAIN props) |->
     IF f \in DOMAIN props THEN props[f] ELSE obj[f]]

\* (x.f || 0) for a numeric property that may be undefined
OrZero(obj, f) == IF f \in DOMAIN obj THEN obj[f] ELSE 0

Max(a, b) == IF a >= b THEN a ELSE b

\* state.currentPost?.id === id
CurrentIs(s, id) == Len(s.currentPost) = 1 /\ s.currentPost[1].id = id

updatePosts(posts, payload) ==
  LET F(post) == IF post.id = payload.postId
                 THEN Spread(post, payload.updates) ELSE post
  IN  [i \in 1..Len(posts) |-> F(posts[i])]

\* an UPDATE_POST that clears a stale error on success
UPDATE_POST_ClearsError(s, payload) ==
  [s EXCEPT !.posts = updatePosts(s.posts, payload),
            !.userPosts = updatePosts(s.userPosts, payload),
            !.currentPost = IF CurrentIs(s, payload.postId)
                            THEN <<Spread(s.currentPost[1], payload.updates)>>
                            ELSE s.currentPost,
            !.loading = FALSE,
            !.error = Null]

UPDATE_POST(s, payload) ==
  [s EXCEPT !.posts = updatePosts(s.posts, payload),
            !.userPosts = updatePosts(s.userPosts, payload),
            !.currentPost = IF CurrentIs(s, payload.postId)
                            THEN <<Spread(s.currentPost[1], payload.updates)>>
                            ELSE s.currentPost,
            !.loading = FALSE]

\* a DELETE_POST that drops the current post whichever post is deleted
DELETE_POST_DropsCurrentPost(s, payload) ==
  LET Keep(post) == post.id # payload
  IN  [s EXCEPT !.posts = SelectSeq(s.posts, Keep),
                !.userPosts = SelectSeq(s.userPosts, Keep),
                !.currentPost = <<>>,
                !.loading = FALSE]

DELETE_POST(s, payload) ==
  LET Keep(post) == post.id # payload
  IN  [s EXCEPT !.posts = SelectSeq(s.posts, Keep),
                !.userPosts = SelectSeq(s.userPosts, Keep),
                !.currentPost = IF CurrentIs(s, payload) THEN <<>> ELSE s.currentPost,
                !.loading = FALSE]

\* a like toggle that counts the like and forgets the unlike
likedPost_DropsUnlike(post, payload) ==
  Spread(post, [is_liked |-> payload.isLiked,
                like_count |-> OrZero(post, "like_count")
                                 + (IF payload.isLiked THEN 1 ELSE 0)])

likedPost(post, payload) ==
  Spread(post, [is_liked |-> payload.isLiked,
                like_count |-> OrZero(post, "like_count") + payload.likeDelta])

toggleLikePosts(posts, payload) ==
  LET F(post) == IF post.id = payload.postId THEN likedPost(post, payload) ELSE post
  IN  [i \in 1..Len(posts) |-> F(posts[i])]

\* a TOGGLE_LIKE that forgets the user feed
TOGGLE_LIKE_SkipsUserFeed(s, payload) ==
  [s EXCEPT !.posts = toggleLikePosts(s.posts, payload),
            !.currentPost = IF CurrentIs(s, payload.postId)
                            THEN <<likedPost(s.currentPost[1], payload)>>
                            ELSE s.currentPost]

TOGGLE_LIKE(s, payload) ==
  [s EXCEPT !.posts = toggleLikePosts(s.posts, payload),
            !.userPosts = toggleLikePosts(s.userPosts, payload),
            !.currentPost = IF CurrentIs(s, payload.postId)
                            THEN <<likedPost(s.currentPost[1], payload)>>
                            ELSE s.currentPost]

incrementCommentCount(posts, payload) ==
  LET F(post) == IF post.id = payload.post_id
                 THEN Spread(post, [comment_count |-> OrZero(post, "comment_count") + 1])
                 ELSE post
  IN  [i \in 1..Len(posts) |-> F(posts[i])]

ADD_COMMENT(s, payload) ==
  [s EXCEPT !.posts = incrementCommentCount(s.posts, payload),
            !.userPosts = incrementCommentCount(s.userPosts, payload),
            !.currentPost =
               IF CurrentIs(s, payload.post_id)
               THEN <<Spread(s.currentPost[1],
                       [comment_count |-> OrZero(s.currentPost[1], "comment_count") + 1])>>
               ELSE s.currentPost,
            !.comments = Append(s.comments, payload)]

UPDATE_COMMENT(s, payload) ==
  LET F(comment) == IF comment.id = payload.commentId
                    THEN Spread(comment, [content |-> payload.content]) ELSE comment
  IN  [s EXCEPT !.comments = [i \in 1..Len(s.comments) |-> F(s.comments[i])]]

\* state.comments.find(c => c.id === id): the first match, <<>> when there is none
findComment(s, id) ==
  LET Hit(c) == c.id = id
      hits == SelectSeq(s.comments, Hit)
  IN  IF hits = <<>> THEN <<>> ELSE <<hits[1]>>

\* a decrement without the floor
decremented_NoFloor(post) ==
  Spread(post, [comment_count |-> OrZero(post, "comment_count") - 1])

\* Math.max((post.comment_count || 0) - 1, 0)
decremented(post) ==
  Spread(post, [comment_count |-> Max(OrZero(post, "comment_count") - 1, 0)])

\* a decrement that does not look at the parent post of the comment
decrementCommentCount_EveryPost(s, posts, payload) ==
  LET deletedComment == findComment(s, payload)
      F(post) == IF deletedComment # <<>> THEN decremented(post) ELSE post
  IN  [i \in 1..Len(posts) |-> F(posts[i])]

decrementCommentCount(s, posts, payload) ==
  LET deletedComment == findComment(s, payload)
      F(post) == IF deletedComment # <<>> /\ post.id = deletedComment[1].post_id
                 THEN decremented(post) ELSE post
  IN  [i \in 1..Len(posts) |-> F(posts[i])]

DELETE_COMMENT(s, payload) ==
  LET deletedComment == findComment(s, payload)
      Keep(comment) == comment.id # payload
  IN  [s EXCEPT !.posts = decrementCommentCount(s, s.posts, payload),
                !.userPosts = decrementCommentCount(s, s.userPosts, payload),
                !.currentPost =
                   IF deletedComment # <<>> /\ CurrentIs(s, deletedComment[1].post_id)
                   THEN <<decremented(s.currentPost[1])>>
                   ELSE s.currentPost,
                !.comments = SelectSeq(s.comments, Keep)]

\* a CLEAR_CURRENT_POST that keeps the thread
CLEAR_CURRENT_POST_KeepsComments(s) == [s EXCEPT !.currentPost = <<>>]

CLEAR_CURRENT_POST(s) == [s EXCEPT !.currentPost = <<>>, !.comments = <<>>]

\* an ADD_POST that puts the new post at the end of the feeds
ADD_POST_Appends(s, payload) ==
  [s EXCEPT !.posts = s.posts \o <<payload>>,
            !.userPosts = s.userPosts \o <<payload>>,
            !.loading = FALSE]

ADD_POST(s, payload) ==
  [s EXCEPT !.posts = <<payload>> \o s.posts,
            !.userPosts = <<payload>> \o s.userPosts,
            !.loading = FALSE]

postsReducer(s, action) ==
  CASE action.type = "SET_LOADING" -> [s EXCEPT !.loading = action.payload]
    [] action.type = "SET_REFRESHING" -> [s EXCEPT !.refreshing = action.payload]
    [] action.type = "SET_ERROR" ->
         [s EXCEPT !.error = action.payload, !.loading = FALSE, !.refreshing = FALSE]
    [] action.type = "SET_POSTS" ->
         [s EXCEPT !.posts = action.payload, !.loading = FALSE, !.refreshing = FALSE]
    [] action.type = "SET_USER_POSTS" ->
         [s EXCEPT !.userPosts = action.payload, !.loading = FALSE, !.refreshing = FALSE]
    [] action.type = "SET_CURRENT_POST" ->
         [s EXCEPT !.currentPost = action.payload, !.loading = FALSE]
    [] action.type = "SET_COMMENTS" ->
         [s EXCEPT !.comments = action.payload, !.loading = FALSE]
    [] action.type = "ADD_POST" -> ADD_POST(s, action.payload)
    [] action.type = "UPDATE_POST" -> UPDATE_POST(s, action.payload)
    [] action.type = "DELETE_POST" -> DELETE_POST(s, action.payload)
    [] action.type = "TOGGLE_LIKE" -> TOGGLE_LIKE(s, action.payload)
    [] action.type = "ADD_COMMENT" -> ADD_COMMENT(s, action.payload)
    [] action.type = "UPDATE_COMMENT" -> UPDATE_COMMENT(s, action.payload)
    [] action.type = "DELETE_COMMENT" -> DELETE_COMMENT(s, action.payload)
    [] action.type = "CLEAR_ERROR" -> [s EXCEPT !.error = Null]
    [] action.type = "CLEAR_CURRENT_POST" -> CLEAR_CURRENT_POST(s)
    [] OTHER -> s

Act(type, payload) == [payload |-> payload, type |-> type]

\* dispatch of a list of actions, in order
RECURSIVE Dispatched(_, _)
Dispatched(s, actions) ==
  IF actions = <<>> THEN s
  ELSE Dispatched(postsReducer(s, Head(actions)), Tail(actions))


(***************************************************************************)
(* Values shared by the specifications                                     *)
(***************************************************************************)
NumPosts == 2
PostIds == 1..NumPosts

\* the owner of the posts that exist before the run: post 1 is the actor's
Owner(id) == IF id = 1 THEN Me ELSE Other

\* a row of posts_with_stats with the is_liked flag the gateway adds
MkPost(id, lc, cc, il) ==
  [id |-> id, user_id |-> Owner(id), content |-> <<"tree">>, image_url |-> 0,
   like_count |-> lc, comment_count |-> cc, is_liked |-> il]

MkComment(id, pid, uid) ==
  [id |-> id, post_id |-> pid, user_id |-> uid, content |-> <<"hello">>]

MaxInFlight == 2
NoCalls == <<>>
EmptyDb ==
  [posts |-> {}, likes |-> {}, comments |-> {}, objects |-> {}, nextId |-> 1,
   envSteps |-> 0, faults |-> 0]
NoResult == [op |-> "none"]
NoMark == [kind |-> "none"]
NoInput == [phase |-> "none"]

\* the daily analytics service before its first call: the first morning, nothing in
\* AsyncStorage
Noon == 12
MaxDailyCalls == 3
NoDaily ==
  [day |-> 1, hour |-> Noon - 1, lastUpdate |-> <<>>, cache |-> <<>>, runs |-> <<>>,
   left |-> MaxDailyCalls, computed |-> <<>>, results |-> <<>>]

\* hist keeps the last two dispatches
Recorded(h, s, action) ==
  LET all == Append(h, [action |-> action, before |-> s])
  IN  IF Len(all) > 2 THEN Tail(all) ELSE all

(***************************************************************************)
(* SpecReducer: the transitions that maintain likes and comment counts,    *)
(* dispatched in any order from a snapshot whose views agree               *)
(***************************************************************************)
\* every entry of every view, with the view it is in
Entries(s) ==
  {<<"posts", i>> : i \in 1..Len(s.posts)}
    \cup {<<"userPosts", i>> : i \in 1..Len(s.userPosts)}
    \cup {<<"currentPost", i>> : i \in 1..Len(s.currentPost)}

EntryAt(s, e) == s[e[1]][e[2]]

\* the mutable fields of a post; <<>> stands for a property that is undefined
Field(post, f) == IF f \in DOMAIN post THEN <<post[f]>> ELSE <<>>

Mutable(post) ==
  <<Field(post, "like_count"), Field(post, "comment_count"), Field(post, "is_liked")>>

\* entries of the same post carry the same mutable fields, whatever view they are in
ViewsAgree(s) ==
  \A e1, e2 \in Entries(s) :
     EntryAt(s, e1).id = EntryAt(s, e2).id
        => Mutable(EntryAt(s, e1)) = Mutable(EntryAt(s, e2))

\* the post entries of a snapshot, view by view, projected on one field
Column(s, f) ==
  <<[i \in 1..Len(s.posts) |-> Field(s.posts[i], f)],
    [i \in 1..Len(s.userPosts) |-> Field(s.userPosts[i], f)],
    [i \in 1..Len(s.currentPost) |-> Field(s.currentPost[i], f)]>>

InView(view, id) == \E i \in 1..Len(view) : view[i].id = id

InAllViews(s, id) ==
  InView(s.posts, id) /\ InView(s.userPosts, id) /\ InView(s.currentPost, id)

Post1Values == {MkPost(1, 0, 0, FALSE), MkPost(1, 1, 1, TRUE)}
Post2Value == MkPost(2, 1, 1, FALSE)

ReducerSnapshots ==
  {[posts |-> ps, userPosts |-> us, currentPost |-> cp, comments |-> cs,
    loading |-> FALSE, error |-> Null, refreshing |-> FALSE] :
      ps \in UNION {{<<>>, <<p1>>, <<Post2Value, p1>>} : p1 \in Post1Values},
      us \in UNION {{<<>>, <<p1>>} : p1 \in Post1Values},
      cp \in UNION {{<<>>, <<p1>>, <<Post2Value>>} : p1 \in Post1Values},
      cs \in {<<>>, <<MkComment(1, 1, Me)>>,
              <<MkComment(1, 1, Me), MkComment(2, 2, Other)>>}}

InitReducer ==
  /\ state \in {s \in ReducerSnapshots : ViewsAgree(s)}
  /\ session = Me
  /\ db = EmptyDb
  /\ calls = NoCalls
  /\ budget = 0
  /\ last = NoResult
  /\ hist = <<>>
  /\ steps = 0
  /\ mark = NoMark
  /\ vin = NoInput
  /\ vout = NoInput
  /\ daily = NoDaily

\* dispatch(action) on the store, outside any provider call
Dispatch(action) ==
  /\ steps < MaxSteps
  /\ state' = postsReducer(state, action)
  /\ hist' = Recorded(hist, state, action)
  /\ steps' = steps + 1
  /\ UNCHANGED <<session, db, calls, budget, last, mark, vin, vout, daily>>

UpdatePayloads ==
  {[postId |-> id, updates |-> u] :
     id \in {1, NumPosts + 1},
     u \in {[content |-> <<"plant">>],
            [content |-> <<"plant">>, like_count |-> 2, comment_count |-> 0,
             is_liked |-> TRUE]}}

TogglePayloads ==
  {[postId |-> id, isLiked |-> l, likeDelta |-> d] :
     id \in 1..(NumPosts + 1), l \in BOOLEAN, d \in {-1, 1}}

DispatchUpdatePost == \E p \in UpdatePayloads : Dispatch(Act("UPDATE_POST", p))

DispatchToggleLike == \E p \in TogglePayloads : Dispatch(Act("TOGGLE_LIKE", p))

\* a comment the server has just created: its id is new
DispatchAddComment ==
  \E pid \in PostIds : Dispatch(Act("ADD_COMMENT", MkComment(3 + steps, pid, Me)))

DispatchDeleteComment == \E id \in 1..3 : Dispatch(Act("DELETE_COMMENT", id))

NextReducer ==
  \/ DispatchUpdatePost
  \/ DispatchToggleLike
  \/ DispatchAddComment
  \/ DispatchDeleteComment

SpecReducer == InitReducer /\ [][NextReducer]_vars


(***************************************************************************)
(* GeminiValidationService and CreatePostModal.handleSubmit                *)
(*                                                                         *)
(* A text is a sequence of tokens; keyword.includes is decided token by    *)
(* token.  A confidence is a number of tenths.  An answer of the adapter   *)
(* is what one generateContent call does: it throws (also on a timeout),   *)
(* returns text JSON.parse rejects, or returns a JSON object.              *)
(***************************************************************************)
Tokens == {" ", "hello", "Tree", "street", "hate", "diet"}

toLowerCase(tok) == IF tok = "Tree" THEN "tree" ELSE tok

ecoKeywords ==
  {"environment", "eco", "green", "sustainable", "climate", "nature", "renewable",
   "recycl", "conservation", "organic", "solar", "waste", "carbon", "biodiversity",
   "pollution", "clean energy", "tree", "plant"}

inappropriateKeywords == {"hate", "kill", "die", "stupid", "idiot", "fuck", "shit", "damn"}

\* the keywords that occur in a lower-case token as substrings
KeywordsIn(tok) ==
  CASE tok = "tree" -> {"tree"}
    [] tok = "street" -> {"tree"}
    [] tok = "hate" -> {"hate"}
    [] tok = "diet" -> {"die"}
    [] OTHER -> {}

\* `${title} ${content}`.toLowerCase(); an undefined title prints as "undefined"
fullText(title, content) ==
  LET shown == IF title = <<>> THEN <<"undefined">> ELSE title[1]
      joined == shown \o <<" ">> \o content
  IN  [i \in 1..Len(joined) |-> toLowerCase(joined[i])]

\* keywords.some(keyword => fullText.includes(keyword))
someIncluded(keywords, text) ==
  \E i \in 1..Len(text) : KeywordsIn(text[i]) \cap keywords # {}

Min(a, b) == IF a <= b THEN a ELSE b

\* Math.max(0, Math.min(1, c)), in tenths
clamp01(c) == Max(0, Min(10, c))

\* whether the call returned an object the parsing code can read
Parsed(answer) == answer.kind = "json"

checkEcoRelevance(content, title, answer) ==
  IF Parsed(answer)
  THEN [isEcoRelated |-> answer.flag, confidence |-> clamp01(answer.confidence),
        category |-> "General", reasoning |-> "adapter"]
  ELSE LET hasEcoKeywords == someIncluded(ecoKeywords, fullText(title, content))
       IN  [isEcoRelated |-> hasEcoKeywords,
            confidence |-> IF hasEcoKeywords THEN 6 ELSE 3,
            category |-> IF hasEcoKeywords THEN "General" ELSE "Not Eco-Related",
            reasoning |-> "Fallback keyword analysis due to API error"]

checkContentModeration(content, title, answer) ==
  IF Parsed(answer)
  THEN [isAppropriate |-> answer.flag, confidence |-> clamp01(answer.confidence),
        violations |-> answer.violations, isArray |-> answer.isArray,
        reasoning |-> "adapter"]
  ELSE LET hasInappropriate ==
             someIncluded(inappropriateKeywords, fullText(title, content))
       IN  [isAppropriate |-> ~hasInappropriate, confidence |-> 5,
            violations |-> IF hasInappropriate
                           THEN <<"Potentially inappropriate language detected">>
                           ELSE <<>>,
            isArray |-> TRUE,
            reasoning |-> "Fallback keyword analysis due to API error"]

generateSuggestions(answer) ==
  IF Parsed(answer) THEN (IF answer.isArray THEN <<"adapter suggestion">> ELSE <<>>)
  ELSE <<"Focus on environmental or sustainability topics",
         "Share positive eco-friendly experiences or tips",
         "Use respectful language that builds community">>

\* the result of the catch block of validatePostContent
permissiveResult ==
  [isValid |-> TRUE, isEcoRelated |-> TRUE, confidence |-> 1,
   reasons |-> <<"Validation service temporarily unavailable">>,
   suggestions |->
     <<"Please ensure your post is related to environmental sustainability">>]

\* reasons.push(...violations) throws when the adapter's violations is no array
spreadThrows(moderationCheck) == ~moderationCheck.isArray

validatePostContent(content, title, eco, mod, sug) ==
  LET ecoCheck == checkEcoRelevance(content, title, eco)
      moderationCheck == checkContentModeration(content, title, mod)
      isValid == ecoCheck.isEcoRelated /\ moderationCheck.isAppropriate
      reasons ==
        (IF ~ecoCheck.isEcoRelated
         THEN <<"Content is not related to environment or sustainability">>
         ELSE <<>>)
        \o (IF ~moderationCheck.isAppropriate THEN moderationCheck.violations ELSE <<>>)
      result ==
        [isValid |-> isValid, isEcoRelated |-> ecoCheck.isEcoRelated,
         confidence |-> Min(ecoCheck.confidence, moderationCheck.confidence),
         reasons |-> reasons, category |-> ecoCheck.category]
  IN  IF ~moderationCheck.isAppropriate /\ spreadThrows(moderationCheck)
      THEN permissiveResult
      ELSE IF isValid THEN result
      ELSE Spread(result, [suggestions |-> generateSuggestions(sug)])

\* text.trim(): leading and trailing blanks removed
RECURSIVE trimStart(_)
trimStart(text) ==
  IF text # <<>> /\ Head(text) = " " THEN trimStart(Tail(text)) ELSE text

RECURSIVE trimEnd(_)
trimEnd(text) ==
  IF text # <<>> /\ text[Len(text)] = " "
  THEN trimEnd(SubSeq(text, 1, Len(text) - 1)) ELSE text

trim(text) == trimEnd(trimStart(text))

MaxText == 2
Texts == UNION {[1..n -> Tokens] : n \in 0..MaxText}

Throws == [kind |-> "throws"]
Unparsable == [kind |-> "unparsable"]

EcoAnswers ==
  {Throws, Unparsable}
    \cup {[kind |-> "json", flag |-> f, confidence |-> c] : f \in BOOLEAN, c \in {4, 12}}

ModerationAnswers ==
  {Throws, Unparsable,
   [kind |-> "json", flag |-> TRUE, confidence |-> 9, violations |-> <<>>,
    isArray |-> TRUE],
   [kind |-> "json", flag |-> FALSE, confidence |-> 9, violations |-> <<"spam">>,
    isArray |-> TRUE],
   [kind |-> "json", flag |-> FALSE, confidence |-> 9, violations |-> <<>>,
    isArray |-> FALSE]}

SuggestionAnswers == {Throws} \cup {[kind |-> "json", isArray |-> a] : a \in BOOLEAN}

\* every generateContent call throws, times out or returns unparsable text
AdapterUnavailable(v) == ~Parsed(v.eco) /\ ~Parsed(v.mod) /\ ~Parsed(v.sug)

InitValidation ==
  /\ vin \in {[phase |-> "form", content |-> c, title |-> ti, selectedImage |-> im,
               eco |-> e, mod |-> m, sug |-> s] :
                c \in Texts, ti \in {<<>>, <<<<"Tree">>>>}, im \in BOOLEAN,
                e \in EcoAnswers, m \in ModerationAnswers, s \in SuggestionAnswers}
  /\ vout = NoInput
  /\ state = initialState
  /\ session = Me
  /\ db = EmptyDb
  /\ calls = NoCalls
  /\ budget = 0
  /\ last = NoResult
  /\ hist = <<>>
  /\ steps = 0
  /\ mark = NoMark
  /\ daily = NoDaily

\* handleSubmit up to its first await: the guard, then the validation request
handleSubmit ==
  /\ vin.phase = "form"
  /\ IF trim(vin.content) = <<>> /\ ~vin.selectedImage
     THEN /\ vin' = [vin EXCEPT !.phase = "alerted"]
          /\ vout' = [phase |-> "alerted", validating |-> FALSE,
                      validationError |-> <<>>, submitted |-> FALSE]
     ELSE /\ vin' = [vin EXCEPT !.phase = "validating"]
          /\ vout' = [phase |-> "validating", validating |-> TRUE,
                      validationError |-> <<>>, submitted |-> FALSE]
  /\ UNCHANGED <<state, session, db, calls, budget, last, hist, steps, mark, daily>>

\* the text handed to setValidationError: the reasons, then the suggestions or,
\* when joining them gives the empty string, the default advice
validationMessage(validation) ==
  [head |-> "Post validation failed", reasons |-> validation.reasons,
   suggestions |->
     IF validation.suggestions = <<>>
     THEN <<"Please ensure your post is eco-friendly and appropriate.">>
     ELSE validation.suggestions]

\* a handleSubmit that goes on to onSubmit after showing the validation error
validationResolved_SubmitsInvalid ==
  /\ vin.phase = "validating"
  /\ LET validation ==
           validatePostContent(vin.content, vin.title, vin.eco, vin.mod, vin.sug)
     IN  /\ vin' = [vin EXCEPT !.phase = "done"]
         /\ vout' = [phase |-> "done", validating |-> FALSE,
                     validation |-> validation,
                     validationError |->
                       IF validation.isValid THEN <<>>
                       ELSE <<validationMessage(validation)>>,
                     submitted |-> TRUE]
  /\ UNCHANGED <<state, session, db, calls, budget, last, hist, steps, mark, daily>>

\* handleSubmit after validatePostContent has resolved; validationError is null
\* (the empty sequence) or the message
validationResolved ==
  /\ vin.phase = "validating"
  /\ LET validation ==
           validatePostContent(vin.content, vin.title, vin.eco, vin.mod, vin.sug)
     IN  /\ vin' = [vin EXCEPT !.phase = "done"]
         /\ vout' = [phase |-> "done", validating |-> FALSE,
                     validation |-> validation,
                     validationError |->
                       IF validation.isValid THEN <<>>
                       ELSE <<validationMessage(validation)>>,
                     submitted |-> validation.isValid]
  /\ UNCHANGED <<state, session, db, calls, budget, last, hist, steps, mark, daily>>

NextValidation == handleSubmit \/ validationResolved

SpecValidation == InitValidation /\ [][NextValidation]_vars

(***************************************************************************)
(* The remote store (schema: tables posts, comments, likes; view           *)
(* posts_with_stats) as the gateway's requests see it                      *)
(***************************************************************************)
MaxCalls == 2
MaxLikeCalls == 3
MaxOther == 1
limit == 20
MaxFaults == 1

NoError == [kind |-> "null"]
StringError(m) == [kind |-> "string", message |-> m]
ObjectError(m) == [kind |-> "object", message |-> m]

\* what a request that fails hands back: the error of a response, the exception of
\* a request that throws
RequestError == ObjectError("request failed")
Thrown == ObjectError("Network request failed")

\* a promise that rejects instead of resolving with a result
Rejected == [kind |-> "rejected", message |-> "Network request failed"]

\* error?.message || fallback: a string has no message property
ErrorMessage(error, fallback) ==
  IF error.kind = "object" THEN error.message ELSE fallback

LikesOf(d, pid) == {l \in d.likes : l.post_id = pid}
CommentsOf(d, pid) == {c \in d.comments : c.post_id = pid}
HasLike(d, pid, uid) == \E l \in d.likes : l.post_id = pid /\ l.user_id = uid

\* one row of the view posts_with_stats
WithStats(d, row) ==
  Spread(row, [like_count |-> Cardinality(LikesOf(d, row.id)),
               comment_count |-> Cardinality(CommentsOf(d, row.id))])

\* order("created_at", { ascending: false }): rows are created in id order
RECURSIVE NewestFirst(_)
NewestFirst(rows) ==
  IF rows = {} THEN <<>>
  ELSE LET newest == CHOOSE r \in rows : \A q \in rows : q.id <= r.id
       IN  <<newest>> \o NewestFirst(rows \ {newest})

\* order("created_at", { ascending: true })
RECURSIVE OldestFirst(_)
OldestFirst(rows) ==
  IF rows = {} THEN <<>>
  ELSE LET oldest == CHOOSE r \in rows : \A q \in rows : r.id <= q.id
       IN  <<oldest>> \o OldestFirst(rows \ {oldest})

\* range(offset, offset + limit - 1) with offset 0
Range(rows) == SubSeq(rows, 1, Min(limit, Len(rows)))

\* the per-row like check of getPosts, getUserPosts and getPost: is_liked: !!likeData
withLikes(d, rows, uid) ==
  [i \in 1..Len(rows) |-> Spread(rows[i], [is_liked |-> HasLike(d, rows[i].id, uid)])]

InitialDbs ==
  {[posts |-> {[id |-> 1, user_id |-> Me, content |-> <<"Tree">>, image_url |-> 0],
               [id |-> 2, user_id |-> Other, content |-> <<"Tree">>, image_url |-> 0]},
    likes |-> ls, comments |-> cs, objects |-> {}, nextId |-> 3, envSteps |-> 0,
    faults |-> 0] :
      ls \in {{}, {[id |-> 1, post_id |-> 1, user_id |-> Me]}},
      cs \in {{}, {MkComment(1, 1, Me), MkComment(2, 1, Other)}}}

(***************************************************************************)
(* PostsProvider: each action of the context is a call that starts (the    *)
(* code up to the gateway call), runs the gateway's requests one by one,   *)
(* and resolves (the code after the await).                                *)
(***************************************************************************)
provVars == <<hist, steps, vin, vout, daily>>

Quiescent == calls = <<>>

\* the calls in flight without call i
Without(i) == [j \in 1..(Len(calls) - 1) |-> IF j < i THEN calls[j] ELSE calls[j + 1]]

\* the posts the provider's actions are called on
TargetPosts == {1}

NewCall(op, arg, pc) ==
  [op |-> op, pc |-> pc, arg |-> arg, user |-> NoUser, reqs |-> {}, tmp |-> <<>>,
   res |-> [data |-> <<>>, isLiked |-> FALSE, error |-> NoError]]

\* the result slot of a call the context rejected before calling the gateway
NotCalled == [data |-> <<>>, isLiked |-> FALSE, error |-> [kind |-> "not called"]]

Types(actions) == [k \in 1..Len(actions) |-> actions[k].type]

\* the post the like claims follow
Watched == CHOOSE pid \in TargetPosts : TRUE

\* mark while a call starts: a getPosts that starts with nothing in flight may become
\* the baseline; any other call but a like toggle spoils the baseline
markAtStart(op) ==
  CASE op = "getPosts" /\ calls = <<>> -> [kind |-> "fetching"]
    [] op = "toggleLike" /\ mark.kind = "base" ->
         [mark EXCEPT !.overlap = @ \/ calls # <<>>]
    [] OTHER -> NoMark

\* is_liked read as the views read it: undefined counts as not liked
Liked(post) == "is_liked" \in DOMAIN post /\ post.is_liked

\* every entry of the watched post shows the like rows of the store as they are
InSync(s, d) ==
  /\ InView(s.posts, Watched)
  /\ \A e \in Entries(s) :
        EntryAt(s, e).id = Watched
           => /\ Liked(EntryAt(s, e)) = HasLike(d, Watched, Me)
              /\ OrZero(EntryAt(s, e), "like_count") = Cardinality(LikesOf(d, Watched))

\* mark when call i resolves: a getPosts that ran alone and leaves the views in step
\* with the store sets the baseline; after it, mark notes whether a like toggle
\* started while a call was in flight, whether one failed, and the snapshot each
\* successful one left
markAtResolve(i, s) ==
  IF /\ calls[i].op = "getPosts" /\ mark.kind = "fetching"
     /\ calls[i].res.error = NoError /\ InSync(s, db)
  THEN [kind |-> "base", rows |-> Cardinality(LikesOf(db, Watched)), before |-> s,
        overlap |-> FALSE, failed |-> FALSE, after |-> <<>>]
  ELSE IF calls[i].op = "toggleLike"
       THEN IF mark.kind # "base" THEN mark
            ELSE IF calls[i].res.error # NoError THEN [mark EXCEPT !.failed = TRUE]
            ELSE [mark EXCEPT !.after = Append(@, s)]
       ELSE NoMark

\* the context's prologue: the isUser guard, the dispatches before the await
Begin(op, arg, guardError, prologue, pc) ==
  /\ budget > 0
  /\ budget' = budget - 1
  /\ IF session = NoUser
     THEN /\ state' = Dispatched(state, guardError)
          /\ last' = [op |-> op, arg |-> arg, returned |-> FALSE, reqs |-> {},
                      user |-> NoUser, res |-> NotCalled, dispatched |-> Types(guardError)]
          /\ UNCHANGED <<calls, mark>>
     ELSE /\ Len(calls) < MaxInFlight
          /\ state' = Dispatched(state, prologue)
          /\ calls' = Append(calls, NewCall(op, arg, pc))
          /\ mark' = markAtStart(op)
          /\ UNCHANGED last
  /\ UNCHANGED <<session, db>>
  /\ UNCHANGED provVars

LoadingPrologue == <<Act("SET_LOADING", TRUE), Act("SET_ERROR", Null)>>

\* a request of call i: its record and the store change
Step(i, call, d) ==
  /\ calls' = [calls EXCEPT ![i] = call]
  /\ db' = d
  /\ UNCHANGED <<state, session, budget, last, mark>>
  /\ UNCHANGED provVars

Returns(c, res) == [c EXCEPT !.pc = "return", !.res = res]

Failed(c, error) == Returns(c, [data |-> <<>>, isLiked |-> FALSE, error |-> error])

\* a gateway operation that lets the exception of a request escape
caught_Rethrows(c, exception) ==
  Failed([c EXCEPT !.reqs = @ \cup {"threw"}], Rejected)

\* the catch block that closes every gateway operation: return { data: null, error }
caught(c, exception) ==
  Failed([c EXCEPT !.reqs = @ \cup {"threw"}], exception)

\* the code after the await: the dispatches, then the call is over
\* a gateway promise that rejects lands in the catch block of the context action
Resolve(i, actions, returned) ==
  LET rejected == calls[i].res.error = Rejected
      done == IF rejected THEN <<Act("SET_ERROR", "An unexpected error occurred")>>
              ELSE actions
  IN
  /\ state' = Dispatched(state, done)
  /\ last' = [op |-> calls[i].op, arg |-> calls[i].arg,
              returned |-> returned /\ ~rejected,
              reqs |-> calls[i].reqs, user |-> calls[i].user, res |-> calls[i].res,
              dispatched |-> Types(done)]
  /\ calls' = Without(i)
  /\ mark' = markAtResolve(i, Dispatched(state, done))
  /\ UNCHANGED <<session, db, budget>>
  /\ UNCHANGED provVars

InFlight(i) == i <= Len(calls)

At(i, op, pc) == InFlight(i) /\ calls[i].op = op /\ calls[i].pc = pc

\* afterAuth without createPost's check that there is content or an image
afterAuth_NoContentCheck(c) ==
  CASE c.op = "createPost" ->
         IF c.arg.image THEN [c EXCEPT !.pc = "upload"] ELSE [c EXCEPT !.pc = "insert"]
    [] c.op = "addComment" ->
         IF trim(c.arg.content) = <<>>
         THEN Failed(c, StringError("Comment content cannot be empty"))
         ELSE [c EXCEPT !.pc = "insert"]
    [] c.op = "toggleLike" -> [c EXCEPT !.pc = "check"]
    [] c.op = "deleteComment" -> [c EXCEPT !.pc = "delete"]
    [] c.op = "updatePost" -> [c EXCEPT !.pc = "update"]
    [] c.op = "updateComment" ->
         IF trim(c.arg.content) = <<>>
         THEN Failed(c, StringError("Comment content cannot be empty"))
         ELSE [c EXCEPT !.pc = "update"]
    [] c.op = "deletePost" -> [c EXCEPT !.pc = "find"]
    [] OTHER -> [c EXCEPT !.pc = "select"]

\* afterAuth with the comment checks on the content as typed, not trimmed
afterAuth_NoTrim(c) ==
  CASE c.op = "createPost" ->
         IF c.arg.image THEN [c EXCEPT !.pc = "upload"]
         ELSE IF c.arg.content = <<>>
              THEN Failed(c, StringError("Post must have either content or an image"))
              ELSE [c EXCEPT !.pc = "insert"]
    [] c.op = "addComment" ->
         IF c.arg.content = <<>>
         THEN Failed(c, StringError("Comment content cannot be empty"))
         ELSE [c EXCEPT !.pc = "insert"]
    [] c.op = "toggleLike" -> [c EXCEPT !.pc = "check"]
    [] c.op = "deleteComment" -> [c EXCEPT !.pc = "delete"]
    [] c.op = "updatePost" -> [c EXCEPT !.pc = "update"]
    [] c.op = "updateComment" ->
         IF c.arg.content = <<>>
         THEN Failed(c, StringError("Comment content cannot be empty"))
         ELSE [c EXCEPT !.pc = "update"]
    [] c.op = "deletePost" -> [c EXCEPT !.pc = "find"]
    [] OTHER -> [c EXCEPT !.pc = "select"]

\* what follows supabase.auth.getUser() in each gateway operation, up to its next request
afterAuth(c) ==
  CASE c.op = "createPost" ->
         IF c.arg.image THEN [c EXCEPT !.pc = "upload"]
         ELSE IF c.arg.content = <<>>
              THEN Failed(c, StringError("Post must have either content or an image"))
              ELSE [c EXCEPT !.pc = "insert"]
    [] c.op = "addComment" ->
         IF trim(c.arg.content) = <<>>
         THEN Failed(c, StringError("Comment content cannot be empty"))
         ELSE [c EXCEPT !.pc = "insert"]
    [] c.op = "toggleLike" -> [c EXCEPT !.pc = "check"]
    [] c.op = "deleteComment" -> [c EXCEPT !.pc = "delete"]
    [] c.op = "updatePost" -> [c EXCEPT !.pc = "update"]
    [] c.op = "updateComment" ->
         IF trim(c.arg.content) = <<>>
         THEN Failed(c, StringError("Comment content cannot be empty"))
         ELSE [c EXCEPT !.pc = "update"]
    [] c.op = "deletePost" -> [c EXCEPT !.pc = "find"]
    [] OTHER -> [c EXCEPT !.pc = "select"]

\* supabase.auth.getUser(), the first request of every gateway operation but getPostComments
getUser(i) ==
  /\ InFlight(i)
  /\ calls[i].pc = "auth"
  /\ LET c == [calls[i] EXCEPT !.reqs = @ \cup {"auth"}, !.user = session]
     IN  Step(i, IF session = NoUser
                 THEN Failed(c, StringError("User not authenticated"))
                 ELSE afterAuth(c),
              db)

\* ---- toggleLike
toggleLikeStart ==
  \E pid \in TargetPosts :
     Begin("toggleLike", [postId |-> pid],
           <<Act("SET_ERROR", "You must be logged in to like posts")>>, <<>>, "auth")

\* the select of the existing like; .single() finds it or reports PGRST116
toggleLike_check(i) ==
  /\ At(i, "toggleLike", "check")
  /\ LET c == calls[i]
         found == {l \in db.likes : l.post_id = c.arg.postId /\ l.user_id = c.user}
     IN  Step(i, [c EXCEPT !.pc = "write", !.reqs = @ \cup {"select likes"},
                           !.tmp = IF found = {} THEN <<>>
                                   ELSE <<(CHOOSE l \in found : TRUE).id>>],
              db)

UniqueViolation == ObjectError("duplicate key value violates unique constraint")
ForeignKeyViolation == ObjectError("violates foreign key constraint")

\* the delete of the like found, or the insert of a new one
toggleLike_write(i) ==
  /\ At(i, "toggleLike", "write")
  /\ LET c == calls[i]
         pid == c.arg.postId
     IN  IF c.tmp # <<>>
         THEN Step(i, Returns([c EXCEPT !.reqs = @ \cup {"delete likes"}],
                              [data |-> <<>>, isLiked |-> FALSE, error |-> NoError]),
                   [db EXCEPT !.likes = {l \in @ : l.id # c.tmp[1]}])
         ELSE IF HasLike(db, pid, c.user)
              THEN Step(i, Returns([c EXCEPT !.reqs = @ \cup {"insert likes",
                                                              "unique violation"}],
                                   [data |-> <<>>, isLiked |-> FALSE,
                                    error |-> UniqueViolation]),
                        db)
              ELSE IF ~\E r \in db.posts : r.id = pid
              THEN Step(i, Returns([c EXCEPT !.reqs = @ \cup {"insert likes"}],
                                   [data |-> <<>>, isLiked |-> FALSE,
                                    error |-> ForeignKeyViolation]),
                        db)
              ELSE Step(i, Returns([c EXCEPT !.reqs = @ \cup {"insert likes"}],
                                   [data |-> <<>>, isLiked |-> TRUE, error |-> NoError]),
                        [db EXCEPT !.likes = @ \cup {[id |-> db.nextId, post_id |-> pid,
                                                      user_id |-> c.user]},
                                   !.nextId = @ + 1])

\* toggleLike's continuation with the like delta always +1
toggleLikeResolved_AlwaysIncrements(i) ==
  /\ At(i, "toggleLike", "return")
  /\ LET r == calls[i].res
     IN  IF r.error # NoError
         THEN Resolve(i, <<Act("SET_ERROR", ErrorMessage(r.error, "Failed to toggle like"))>>,
                      FALSE)
         ELSE Resolve(i, <<Act("TOGGLE_LIKE",
                               [postId |-> calls[i].arg.postId, isLiked |-> r.isLiked,
                                likeDelta |-> 1])>>,
                      TRUE)

toggleLikeResolved(i) ==
  /\ At(i, "toggleLike", "return")
  /\ LET r == calls[i].res
     IN  IF r.error # NoError
         THEN Resolve(i, <<Act("SET_ERROR", ErrorMessage(r.error, "Failed to toggle like"))>>,
                      FALSE)
         ELSE Resolve(i, <<Act("TOGGLE_LIKE",
                               [postId |-> calls[i].arg.postId, isLiked |-> r.isLiked,
                                likeDelta |-> IF r.isLiked THEN 1 ELSE -1])>>,
                      TRUE)

\* ---- fetchPosts, fetchUserPosts, fetchPost
fetchStart(op, arg, first) ==
  IF session = NoUser
  THEN Begin(op, arg, <<>>, <<>>, "auth")
  ELSE Begin(op, arg, <<>>, <<first, Act("SET_ERROR", Null)>>, "auth")

fetchPostsStart ==
  \E refresh \in BOOLEAN :
     fetchStart("getPosts", [refresh |-> refresh],
                IF refresh THEN Act("SET_REFRESHING", TRUE) ELSE Act("SET_LOADING", TRUE))

\* fetchUserPosts(userId?): the optional argument names the user whose posts are asked for
fetchUserPostsOf(userIds) ==
  \E uid \in userIds :
     fetchStart("getUserPosts", [userId |-> uid], Act("SET_LOADING", TRUE))

\* the profile tab calls fetchUserPosts() without an argument
fetchUserPostsStart == fetchUserPostsOf({NoUser})

\* any caller of the provider: without an argument, or with a user id
fetchUserPostsOfUser == fetchUserPostsOf({NoUser, Me, Other})

fetchPostStart ==
  \E pid \in TargetPosts : fetchStart("getPost", [postId |-> pid], Act("SET_LOADING", TRUE))

\* the select on posts_with_stats of getPosts, getUserPosts and getPost
getPosts_select(i) ==
  /\ InFlight(i)
  /\ calls[i].op \in {"getPosts", "getUserPosts", "getPost"}
  /\ calls[i].pc = "select"
  /\ LET c == calls[i]
         targetUserId == IF c.arg.userId = NoUser THEN c.user ELSE c.arg.userId
         rows == CASE c.op = "getPosts" -> db.posts
                   [] c.op = "getUserPosts" -> {r \in db.posts : r.user_id = targetUserId}
                   [] OTHER -> {r \in db.posts : r.id = c.arg.postId}
         view == NewestFirst({WithStats(db, r) : r \in rows})
         c1 == [c EXCEPT !.reqs = @ \cup {"select posts_with_stats"}]
     IN  IF c.op = "getPost" /\ rows = {}
         THEN Step(i, Failed(c1, ObjectError("JSON object requested, no rows returned")), db)
         ELSE Step(i, [c1 EXCEPT !.pc = "likes",
                                 !.tmp = IF c.op = "getPosts" THEN Range(view) ELSE view],
                   db)

\* the like checks, one per row, awaited together
getPosts_likes(i) ==
  /\ InFlight(i)
  /\ calls[i].op \in {"getPosts", "getUserPosts", "getPost"}
  /\ calls[i].pc = "likes"
  /\ LET c == calls[i]
     IN  Step(i, Returns([c EXCEPT !.reqs = @ \cup {"select likes"}],
                         [data |-> withLikes(db, c.tmp, c.user), isLiked |-> FALSE,
                          error |-> NoError]),
              db)

\* the fetches' continuation without the error check
fetchResolved_IgnoresError(i) ==
  /\ InFlight(i)
  /\ calls[i].op \in {"getPosts", "getUserPosts", "getPost"}
  /\ calls[i].pc = "return"
  /\ LET c == calls[i]
     IN  Resolve(i, <<Act(CASE c.op = "getPosts" -> "SET_POSTS"
                            [] c.op = "getUserPosts" -> "SET_USER_POSTS"
                            [] OTHER -> "SET_CURRENT_POST",
                          c.res.data)>>, TRUE)

fetchResolved(i) ==
  /\ InFlight(i)
  /\ calls[i].op \in {"getPosts", "getUserPosts", "getPost"}
  /\ calls[i].pc = "return"
  /\ LET c == calls[i]
         r == c.res
     IN  IF r.error # NoError
         THEN Resolve(i, <<Act("SET_ERROR",
                               ErrorMessage(r.error,
                                 CASE c.op = "getPosts" -> "Failed to fetch posts"
                                   [] c.op = "getUserPosts" -> "Failed to fetch user posts"
                                   [] OTHER -> "Failed to fetch post"))>>, FALSE)
         ELSE Resolve(i, <<Act(CASE c.op = "getPosts" -> "SET_POSTS"
                                 [] c.op = "getUserPosts" -> "SET_USER_POSTS"
                                 [] OTHER -> "SET_CURRENT_POST",
                               r.data)>>, TRUE)

\* ---- requests that fail
\* the request call i is about to make throws (a transport failure); uploadPostImage
\* has a catch of its own. The step that failed is kept with the requests made
requestThrows(i) ==
  /\ InFlight(i)
  /\ calls[i].pc \notin {"return", "upload"}
  /\ db.faults < MaxFaults
  /\ Step(i, caught([calls[i] EXCEPT !.reqs = @ \cup {calls[i].pc}], Thrown),
          [db EXCEPT !.faults = @ + 1])

\* the request call i is about to make comes back with an error in its response;
\* getUser with an error finds no user, which logout covers
requestFails(i) ==
  /\ InFlight(i)
  /\ calls[i].pc \notin {"return", "upload", "auth"}
  /\ db.faults < MaxFaults
  /\ LET c == [calls[i] EXCEPT !.reqs = @ \cup {"error response", calls[i].pc}]
         d == [db EXCEPT !.faults = @ + 1]
     IN  CASE c.op = "deletePost" /\ c.pc = "find" ->
                Step(i, Failed(c, StringError("Post not found")), d)
           [] c.op = "deletePost" /\ c.pc = "remove" ->
                Step(i, [c EXCEPT !.pc = "delete"], d)
           [] c.pc = "likes" ->
                Step(i, Returns(c, [data |-> withLikes(EmptyDb, c.tmp, c.user),
                                    isLiked |-> FALSE, error |-> NoError]), d)
           [] c.op = "createPost" /\ c.pc = "insert" ->
                \E e \in {NoError, RequestError} : Step(i, Failed(c, e), d)
           [] c.op = "toggleLike" /\ c.pc = "write" /\ c.tmp # <<>> ->
                Step(i, Returns(c, [data |-> <<>>, isLiked |-> TRUE,
                                    error |-> RequestError]), d)
           [] OTHER -> Step(i, Failed(c, RequestError), d)

\* ---- the other actor, and the end of the session
otherTogglesLike ==
  /\ db.envSteps < MaxOther
  /\ \E pid \in TargetPosts :
        db' = [db EXCEPT
                 !.likes = IF HasLike(db, pid, Other)
                           THEN {l \in @ : ~(l.post_id = pid /\ l.user_id = Other)}
                           ELSE @ \cup {[id |-> db.nextId, post_id |-> pid,
                                         user_id |-> Other]},
                 !.nextId = @ + 1,
                 !.envSteps = @ + 1]
  /\ mark' = NoMark
  /\ UNCHANGED <<state, session, calls, budget, last>>
  /\ UNCHANGED provVars

logout ==
  /\ session # NoUser
  /\ session' = NoUser
  /\ UNCHANGED <<state, db, calls, budget, last, mark>>
  /\ UNCHANGED provVars

\* ---- createPost
PostDatas == {[content |-> c, image |-> im] : c \in {<<>>, <<"Tree">>}, im \in BOOLEAN}

createPostStart ==
  \E postData \in PostDatas :
     Begin("createPost", postData,
           <<Act("SET_ERROR", "You must be logged in to create a post")>>,
           LoadingPrologue, "auth")

\* uploadPostImage: the url of the stored image, or null when the upload fails or
\* throws; then the check that there is content or an image url
createPost_upload(i) ==
  /\ At(i, "createPost", "upload")
  /\ \E uploaded \in BOOLEAN :
       LET c == [calls[i] EXCEPT !.reqs = @ \cup {"upload"}
                                          \cup (IF uploaded THEN {} ELSE {"upload failed"})]
           imageUrl == IF uploaded THEN db.nextId ELSE 0
           d == IF uploaded
                THEN [db EXCEPT !.objects = @ \cup {db.nextId}, !.nextId = @ + 1]
                ELSE db
       IN  IF c.arg.content = <<>> /\ imageUrl = 0
           THEN Step(i, Failed(c, StringError("Post must have either content or an image")), d)
           ELSE Step(i, [c EXCEPT !.pc = "insert", !.tmp = <<imageUrl>>], d)

\* the insert into posts, .select("id").single()
createPost_insert(i) ==
  /\ At(i, "createPost", "insert")
  /\ LET c == calls[i]
         row == [id |-> db.nextId, user_id |-> c.user, content |-> c.arg.content,
                 image_url |-> IF c.tmp = <<>> THEN 0 ELSE c.tmp[1]]
     IN  Step(i, [c EXCEPT !.pc = "refetch", !.reqs = @ \cup {"insert posts"},
                           !.tmp = <<row.id>>],
              [db EXCEPT !.posts = @ \cup {row}, !.nextId = @ + 1])

\* the select of the new row from posts_with_stats
createPost_refetch(i) ==
  /\ At(i, "createPost", "refetch")
  /\ LET c == [calls[i] EXCEPT !.reqs = @ \cup {"select posts_with_stats"}]
         rows == {r \in db.posts : r.id = c.tmp[1]}
     IN  IF rows = {}
         THEN Step(i, Failed(c, ObjectError("JSON object requested, no rows returned")), db)
         ELSE Step(i, Returns(c, [data |-> <<WithStats(db, CHOOSE r \in rows : TRUE)>>,
                                  isLiked |-> FALSE, error |-> NoError]),
                   db)

createPostResolved(i) ==
  /\ At(i, "createPost", "return")
  /\ LET r == calls[i].res
     IN  IF r.error # NoError \/ r.data = <<>>
         THEN Resolve(i, <<Act("SET_ERROR", ErrorMessage(r.error, "Failed to create post"))>>,
                      FALSE)
         ELSE Resolve(i, <<Act("ADD_POST", r.data[1])>>, TRUE)

\* ---- updatePost
UpdateArgs == {[postId |-> pid, content |-> <<"street">>] : pid \in TargetPosts}

updatePostStart ==
  \E arg \in UpdateArgs :
     Begin("updatePost", arg,
           <<Act("SET_ERROR", "You must be logged in to update posts")>>,
           LoadingPrologue, "auth")

\* the update of the owner's row, .select("*").single()
updatePost_update(i) ==
  /\ At(i, "updatePost", "update")
  /\ LET c == [calls[i] EXCEPT !.reqs = @ \cup {"update posts"}]
         rows == {r \in db.posts : r.id = c.arg.postId /\ r.user_id = c.user}
         updated(r) == [r EXCEPT !.content = c.arg.content]
     IN  IF rows = {}
         THEN Step(i, Failed(c, ObjectError("JSON object requested, no rows returned")), db)
         ELSE Step(i, Returns(c, [data |-> <<updated(CHOOSE r \in rows : TRUE)>>,
                                  isLiked |-> FALSE, error |-> NoError]),
                   [db EXCEPT !.posts = (@ \ rows) \cup {updated(r) : r \in rows}])

updatePostResolved(i) ==
  /\ At(i, "updatePost", "return")
  /\ LET r == calls[i].res
     IN  IF r.error # NoError \/ r.data = <<>>
         THEN Resolve(i, <<Act("SET_ERROR", ErrorMessage(r.error, "Failed to update post"))>>,
                      FALSE)
         ELSE Resolve(i, <<Act("UPDATE_POST",
                               [postId |-> calls[i].arg.postId, updates |-> r.data[1]])>>,
                      TRUE)

\* ---- addComment, deleteComment
CommentDatas ==
  {[post_id |-> pid, content |-> content] :
     pid \in TargetPosts, content \in {<<" ">>, <<"hello">>}}

addCommentOf(commentDatas) ==
  \E commentData \in commentDatas :
     Begin("addComment", commentData,
           <<Act("SET_ERROR", "You must be logged in to comment")>>, <<>>, "auth")

addCommentStart == addCommentOf(CommentDatas)

\* handleAddComment of a comment modal, opened on any post of the feed
handleAddComment ==
  addCommentOf({[post_id |-> pid, content |-> <<"hello">>] : pid \in PostIds})

\* the insert into comments, .select("*").single()
addComment_insert(i) ==
  /\ At(i, "addComment", "insert")
  /\ LET c == [calls[i] EXCEPT !.reqs = @ \cup {"insert comments"}]
         row == [id |-> db.nextId, post_id |-> c.arg.post_id, user_id |-> c.user,
                 content |-> trim(c.arg.content)]
     IN  IF ~\E r \in db.posts : r.id = c.arg.post_id
         THEN Step(i, Failed(c, ForeignKeyViolation), db)
         ELSE Step(i, Returns(c, [data |-> <<row>>, isLiked |-> FALSE, error |-> NoError]),
                   [db EXCEPT !.comments = @ \cup {row}, !.nextId = @ + 1])

addCommentResolved(i) ==
  /\ At(i, "addComment", "return")
  /\ LET r == calls[i].res
     IN  IF r.error # NoError \/ r.data = <<>>
         THEN Resolve(i, <<Act("SET_ERROR", ErrorMessage(r.error, "Failed to add comment"))>>,
                      FALSE)
         ELSE Resolve(i, <<Act("ADD_COMMENT", r.data[1])>>, TRUE)

\* the comments the provider's deleteComment is called on: the actor's, the other's
TargetComments == {1, 2}

deleteCommentStart ==
  \E id \in TargetComments :
     Begin("deleteComment", [commentId |-> id],
           <<Act("SET_ERROR", "You must be logged in to delete comments")>>, <<>>, "auth")

\* the delete of the actor's own row: no row deleted is no error
deleteComment_delete(i) ==
  /\ At(i, "deleteComment", "delete")
  /\ LET own == {r \in db.comments : r.id = calls[i].arg.commentId /\ r.user_id = calls[i].user}
         c == [calls[i] EXCEPT !.reqs = @ \cup {"delete comments"}
                                          \cup (IF own = {} THEN {"no row deleted"} ELSE {})]
     IN  Step(i, Returns(c, [data |-> <<>>, isLiked |-> FALSE, error |-> NoError]),
              [db EXCEPT !.comments =
                 {r \in @ : ~(r.id = c.arg.commentId /\ r.user_id = c.user)}])

deleteCommentResolved(i) ==
  /\ At(i, "deleteComment", "return")
  /\ LET r == calls[i].res
     IN  IF r.error # NoError
         THEN Resolve(i, <<Act("SET_ERROR",
                               ErrorMessage(r.error, "Failed to delete comment"))>>, FALSE)
         ELSE Resolve(i, <<Act("DELETE_COMMENT", calls[i].arg.commentId)>>, TRUE)

\* ---- updateComment
UpdateCommentArgs ==
  {[commentId |-> id, content |-> content] :
     id \in TargetComments, content \in {<<" ">>, <<"street">>}}

updateCommentStart ==
  \E arg \in UpdateCommentArgs :
     Begin("updateComment", arg,
           <<Act("SET_ERROR", "You must be logged in to update comments")>>, <<>>, "auth")

\* the update of the actor's own row, .select("*").single()
updateComment_update(i) ==
  /\ At(i, "updateComment", "update")
  /\ LET c == [calls[i] EXCEPT !.reqs = @ \cup {"update comments"}]
         rows == {r \in db.comments : r.id = c.arg.commentId /\ r.user_id = c.user}
         updated(r) == [r EXCEPT !.content = trim(c.arg.content)]
     IN  IF rows = {}
         THEN Step(i, Failed(c, ObjectError("JSON object requested, no rows returned")), db)
         ELSE Step(i, Returns(c, [data |-> <<updated(CHOOSE r \in rows : TRUE)>>,
                                  isLiked |-> FALSE, error |-> NoError]),
                   [db EXCEPT !.comments = (@ \ rows) \cup {updated(r) : r \in rows}])

updateCommentResolved(i) ==
  /\ At(i, "updateComment", "return")
  /\ LET r == calls[i].res
     IN  IF r.error # NoError \/ r.data = <<>>
         THEN Resolve(i, <<Act("SET_ERROR",
                               ErrorMessage(r.error, "Failed to update comment"))>>, FALSE)
         ELSE Resolve(i, <<Act("UPDATE_COMMENT", calls[i].arg)>>, TRUE)

\* ---- fetchComments
fetchCommentsOf(postIds) ==
  \E pid \in postIds :
     IF session = NoUser
     THEN Begin("getPostComments", [postId |-> pid], <<>>, <<>>, "select")
     ELSE Begin("getPostComments", [postId |-> pid], <<>>, LoadingPrologue, "select")

fetchCommentsStart == fetchCommentsOf(TargetPosts)

\* a comment modal opens on any post of the feed and fetches its comments
openCommentModal == fetchCommentsOf(PostIds)

\* getPostComments: the select on comments_with_user, the operation's first request.
\* The comments policy shows rows to authenticated users; whether the view applies
\* it to a request without a user depends on how the view was created
getPostComments_select(i) ==
  /\ At(i, "getPostComments", "select")
  /\ \E visible \in (IF session = NoUser THEN BOOLEAN ELSE {TRUE}) :
       LET c == [calls[i] EXCEPT !.reqs = @ \cup {"select comments_with_user"},
                                 !.user = session]
           rows == IF visible THEN CommentsOf(db, c.arg.postId) ELSE {}
       IN  Step(i, Returns(c, [data |-> OldestFirst(rows), isLiked |-> FALSE,
                               error |-> NoError]),
                db)

fetchCommentsResolved(i) ==
  /\ At(i, "getPostComments", "return")
  /\ LET r == calls[i].res
     IN  IF r.error # NoError
         THEN Resolve(i, <<Act("SET_ERROR",
                               ErrorMessage(r.error, "Failed to fetch comments"))>>, FALSE)
         ELSE Resolve(i, <<Act("SET_COMMENTS", r.data)>>, TRUE)

\* ---- deletePost
deletePostStart ==
  \E pid \in PostIds :
     Begin("deletePost", [postId |-> pid],
           <<Act("SET_ERROR", "You must be logged in to delete posts")>>,
           LoadingPrologue, "auth")

\* the select of image_url and user_id of the post, .single(), and the ownership check
deletePost_find(i) ==
  /\ At(i, "deletePost", "find")
  /\ LET c == [calls[i] EXCEPT !.reqs = @ \cup {"select posts"}]
         rows == {r \in db.posts : r.id = c.arg.postId}
         post == CHOOSE r \in rows : TRUE
     IN  IF rows = {}
         THEN Step(i, Failed(c, StringError("Post not found")), db)
         ELSE IF post.user_id # c.user
         THEN Step(i, Failed(c, StringError("You can only delete your own posts")), db)
         ELSE IF post.image_url # 0
         THEN Step(i, [c EXCEPT !.pc = "remove", !.tmp = <<post.image_url>>], db)
         ELSE Step(i, [c EXCEPT !.pc = "delete"], db)

\* supabase.storage.from("posts").remove([imagePath]): its result is not looked at
deletePost_remove(i) ==
  /\ At(i, "deletePost", "remove")
  /\ LET c == [calls[i] EXCEPT !.reqs = @ \cup {"remove object"}, !.pc = "delete"]
     IN  Step(i, c, [db EXCEPT !.objects = @ \ {c.tmp[1]}])

\* the delete of the owner's row; its likes and comments go with it (ON DELETE CASCADE)
deletePost_delete(i) ==
  /\ At(i, "deletePost", "delete")
  /\ LET c == [calls[i] EXCEPT !.reqs = @ \cup {"delete posts"}]
         gone == {r \in db.posts : r.id = c.arg.postId /\ r.user_id = c.user}
         ids == {r.id : r \in gone}
     IN  Step(i, Returns(c, [data |-> <<>>, isLiked |-> FALSE, error |-> NoError]),
              [db EXCEPT !.posts = @ \ gone,
                         !.likes = {l \in @ : l.post_id \notin ids},
                         !.comments = {r \in @ : r.post_id \notin ids}])

deletePostResolved(i) ==
  /\ At(i, "deletePost", "return")
  /\ LET r == calls[i].res
     IN  IF r.error # NoError
         THEN Resolve(i, <<Act("SET_ERROR", ErrorMessage(r.error, "Failed to delete post"))>>,
                      FALSE)
         ELSE Resolve(i, <<Act("DELETE_POST", calls[i].arg.postId)>>, TRUE)

InitWith(calls0, dbs) ==
  /\ state = initialState
  /\ session = Me
  /\ db \in dbs
  /\ calls = NoCalls
  /\ budget = calls0
  /\ last = NoResult
  /\ hist = <<>>
  /\ steps = 0
  /\ mark = NoMark
  /\ vin = NoInput
  /\ vout = NoInput
  /\ daily = NoDaily

InitProvider(calls0) == InitWith(calls0, InitialDbs)

Init == InitProvider(MaxCalls)

Next ==
  \/ createPostStart
  \/ updatePostStart
  \/ toggleLikeStart
  \/ addCommentStart
  \/ deleteCommentStart
  \/ fetchPostsStart
  \/ fetchUserPostsStart
  \/ fetchPostStart
  \/ \E i \in 1..MaxInFlight :
       \/ getUser(i)
       \/ createPost_upload(i)
       \/ createPost_insert(i)
       \/ createPost_refetch(i)
       \/ createPostResolved(i)
       \/ updatePost_update(i)
       \/ updatePostResolved(i)
       \/ toggleLike_check(i)
       \/ toggleLike_write(i)
       \/ toggleLikeResolved(i)
       \/ addComment_insert(i)
       \/ addCommentResolved(i)
       \/ deleteComment_delete(i)
       \/ deleteCommentResolved(i)
       \/ getPosts_select(i)
       \/ getPosts_likes(i)
       \/ fetchResolved(i)
  \/ otherTogglesLike
  \/ logout

Spec == Init /\ [][Next]_vars

(***************************************************************************)
(* SpecCreate: post creation next to the fetches of the feed               *)
(***************************************************************************)
NextCreate ==
  \/ createPostStart
  \/ fetchPostsStart
  \/ \E i \in 1..MaxInFlight :
       \/ getUser(i)
       \/ createPost_upload(i)
       \/ createPost_insert(i)
       \/ createPost_refetch(i)
       \/ createPostResolved(i)
       \/ getPosts_select(i)
       \/ getPosts_likes(i)
       \/ fetchResolved(i)
  \/ logout

SpecCreate == Init /\ [][NextCreate]_vars

(***************************************************************************)
(* SpecOwners: the user feed of a user named by the caller, next to        *)
(* createPost                                                              *)
(***************************************************************************)
NextOwners ==
  \/ createPostStart
  \/ fetchUserPostsOfUser
  \/ \E i \in 1..MaxInFlight :
       \/ getUser(i)
       \/ createPost_upload(i)
       \/ createPost_insert(i)
       \/ createPost_refetch(i)
       \/ createPostResolved(i)
       \/ getPosts_select(i)
       \/ getPosts_likes(i)
       \/ fetchResolved(i)

SpecOwners == Init /\ [][NextOwners]_vars

(***************************************************************************)
(* SpecComments: the comment thread of a post, next to the feed and the    *)
(* end of the session                                                      *)
(***************************************************************************)
MaxCommentCalls == 3

InitComments == InitProvider(MaxCommentCalls)

NextComments ==
  \/ fetchPostsStart
  \/ fetchCommentsStart
  \/ deleteCommentStart
  \/ updateCommentStart
  \/ \E i \in 1..MaxInFlight :
       \/ getUser(i)
       \/ getPosts_select(i)
       \/ getPosts_likes(i)
       \/ fetchResolved(i)
       \/ getPostComments_select(i)
       \/ fetchCommentsResolved(i)
       \/ deleteComment_delete(i)
       \/ deleteCommentResolved(i)
       \/ updateComment_update(i)
       \/ updateCommentResolved(i)
  \/ logout

SpecComments == InitComments /\ [][NextComments]_vars

(***************************************************************************)
(* SpecThread: comment modals opened on the posts of the feed, one after   *)
(* the other, while calls of an earlier modal are still in flight          *)
(***************************************************************************)
NextThread ==
  \/ openCommentModal
  \/ handleAddComment
  \/ deleteCommentStart
  \/ \E i \in 1..MaxInFlight :
       \/ getUser(i)
       \/ getPostComments_select(i)
       \/ fetchCommentsResolved(i)
       \/ addComment_insert(i)
       \/ addCommentResolved(i)
       \/ deleteComment_delete(i)
       \/ deleteCommentResolved(i)

SpecThread == InitProvider(MaxCommentCalls) /\ [][NextThread]_vars

(***************************************************************************)
(* SpecFaults: every action of the context over a store whose requests may *)
(* fail; the actor's post has a stored image                               *)
(***************************************************************************)
ImageDbs ==
  {[d EXCEPT !.posts = {IF r.user_id = Me THEN [r EXCEPT !.image_url = d.nextId] ELSE r :
                          r \in @},
             !.objects = {d.nextId},
             !.nextId = @ + 1] : d \in {e \in InitialDbs : e.comments # {}}}

InitFaults == InitWith(MaxCalls, ImageDbs)

NextFaults ==
  \/ createPostStart
  \/ updatePostStart
  \/ deletePostStart
  \/ toggleLikeStart
  \/ addCommentStart
  \/ updateCommentStart
  \/ deleteCommentStart
  \/ fetchPostsStart
  \/ fetchUserPostsStart
  \/ fetchPostStart
  \/ fetchCommentsStart
  \/ \E i \in 1..MaxInFlight :
       \/ getUser(i)
       \/ requestThrows(i)
       \/ requestFails(i)
       \/ createPost_upload(i)
       \/ createPost_insert(i)
       \/ createPost_refetch(i)
       \/ createPostResolved(i)
       \/ updatePost_update(i)
       \/ updatePostResolved(i)
       \/ deletePost_find(i)
       \/ deletePost_remove(i)
       \/ deletePost_delete(i)
       \/ deletePostResolved(i)
       \/ toggleLike_check(i)
       \/ toggleLike_write(i)
       \/ toggleLikeResolved(i)
       \/ addComment_insert(i)
       \/ addCommentResolved(i)
       \/ updateComment_update(i)
       \/ updateCommentResolved(i)
       \/ deleteComment_delete(i)
       \/ deleteCommentResolved(i)
       \/ getPosts_select(i)
       \/ getPosts_likes(i)
       \/ fetchResolved(i)
       \/ getPostComments_select(i)
       \/ fetchCommentsResolved(i)

SpecFaults == InitFaults /\ [][NextFaults]_vars

(***************************************************************************)
(* SpecClear: clearCurrentPost next to the fetches that fill the current    *)
(* post, the thread and the error                                          *)
(***************************************************************************)
clearCurrentPost == Dispatch([type |-> "CLEAR_CURRENT_POST"])

NextClear ==
  \/ fetchPostsStart
  \/ fetchPostStart
  \/ fetchCommentsStart
  \/ clearCurrentPost
  \/ \E i \in 1..MaxInFlight :
       \/ getUser(i)
       \/ requestThrows(i)
       \/ requestFails(i)
       \/ getPosts_select(i)
       \/ getPosts_likes(i)
       \/ fetchResolved(i)
       \/ getPostComments_select(i)
       \/ fetchCommentsResolved(i)

SpecClear == InitComments /\ [][NextClear]_vars

(***************************************************************************)
(* SpecStore: every transition of the reducer, dispatched in any order     *)
(* from a snapshot whose views agree and whose error slot may be taken     *)
(***************************************************************************)
StoreSnapshots ==
  {[s EXCEPT !.error = e] :
     s \in {r \in ReducerSnapshots :
              ViewsAgree(r) /\ Len(r.posts) = NumPosts /\ Len(r.comments) > 1},
     e \in {Null, "Failed to fetch posts"}}

InitStore ==
  /\ state \in StoreSnapshots
  /\ session = Me
  /\ db = EmptyDb
  /\ calls = NoCalls
  /\ budget = 0
  /\ last = NoResult
  /\ hist = <<>>
  /\ steps = 0
  /\ mark = NoMark
  /\ vin = NoInput
  /\ vout = NoInput
  /\ daily = NoDaily

UpdateCommentPayloads ==
  {[commentId |-> id, content |-> <<"plant">>] : id \in 1..3}

DispatchSetLoading == \E b \in BOOLEAN : Dispatch(Act("SET_LOADING", b))

DispatchSetRefreshing == \E b \in BOOLEAN : Dispatch(Act("SET_REFRESHING", b))

DispatchSetError ==
  \E e \in {Null, "Failed to create post"} : Dispatch(Act("SET_ERROR", e))

DispatchSetPosts ==
  \E ps \in {<<>>, <<Post2Value>>} : Dispatch(Act("SET_POSTS", ps))

DispatchSetUserPosts ==
  \E ps \in {<<>>} \cup {<<p1>> : p1 \in Post1Values} : Dispatch(Act("SET_USER_POSTS", ps))

DispatchSetCurrentPost ==
  \E cp \in {<<>>, <<Post2Value>>} : Dispatch(Act("SET_CURRENT_POST", cp))

DispatchSetComments ==
  \E cs \in {<<>>, <<MkComment(2, 2, Other)>>} : Dispatch(Act("SET_COMMENTS", cs))

\* a post the server has just created: its id is new
DispatchAddPost == Dispatch(Act("ADD_POST", MkPost(NumPosts + 1, 0, 0, FALSE)))

DispatchDeletePost == \E id \in 1..(NumPosts + 1) : Dispatch(Act("DELETE_POST", id))

DispatchUpdateComment ==
  \E p \in UpdateCommentPayloads : Dispatch(Act("UPDATE_COMMENT", p))

DispatchClearError == Dispatch([type |-> "CLEAR_ERROR"])

NextStore ==
  \/ DispatchSetLoading
  \/ DispatchSetRefreshing
  \/ DispatchSetError
  \/ DispatchSetPosts
  \/ DispatchSetUserPosts
  \/ DispatchSetCurrentPost
  \/ DispatchSetComments
  \/ DispatchAddPost
  \/ DispatchUpdatePost
  \/ DispatchDeletePost
  \/ DispatchToggleLike
  \/ DispatchAddComment
  \/ DispatchUpdateComment
  \/ DispatchDeleteComment
  \/ DispatchClearError
  \/ clearCurrentPost

SpecStore == InitStore /\ [][NextStore]_vars

(***************************************************************************)
(* SpecLikes: the like toggles and the fetches that show them, with one    *)
(* more call than Spec                                                     *)
(***************************************************************************)
InitLikes == InitProvider(MaxLikeCalls)

NextLikes ==
  \/ toggleLikeStart
  \/ fetchPostsStart
  \/ fetchUserPostsStart
  \/ fetchPostStart
  \/ \E i \in 1..MaxInFlight :
       \/ getUser(i)
       \/ toggleLike_check(i)
       \/ toggleLike_write(i)
       \/ toggleLikeResolved(i)
       \/ getPosts_select(i)
       \/ getPosts_likes(i)
       \/ fetchResolved(i)
  \/ otherTogglesLike
  \/ logout

SpecLikes == InitLikes /\ [][NextLikes]_vars

(***************************************************************************)
(* DailyAnalyticsService: performDailyUpdate, called through getDailyData.  *)
(* The clock has days of two parts, before noon and from noon on; the      *)
(* stored timestamp is kept as the day it was written on.  Each generate*  *)
(* method falls back on an adapter failure, so a computation that started  *)
(* always yields a score, a tip and a challenge.                           *)
(***************************************************************************)
MaxDays == 2

allButDaily == <<state, session, db, calls, budget, last, hist, steps, mark, vin, vout>>

\* shouldUpdateDaily at the moment d; a getItem that throws is caught: false
shouldUpdateDaily(d, readable) ==
  IF ~readable THEN FALSE
  ELSE IF d.hour < Noon THEN FALSE
  ELSE IF d.lastUpdate = <<>> THEN TRUE
  ELSE d.lastUpdate[1] < d.day

defaultData == [id |-> "default", day |-> 0]

\* getCachedDailyData: what AsyncStorage holds, or the defaults
getCachedDailyData(d) == IF d.cache = <<>> THEN defaultData ELSE d.cache[1]

RunAt(i, pc) == i <= Len(daily.runs) /\ daily.runs[i].pc = pc

RunsWithout(i) ==
  [j \in 1..(Len(daily.runs) - 1) |-> IF j < i THEN daily.runs[j] ELSE daily.runs[j + 1]]

\* getDailyData(): performDailyUpdate starts
performDailyUpdate ==
  /\ daily.left > 0
  /\ Len(daily.runs) < MaxInFlight
  /\ daily' = [daily EXCEPT !.left = @ - 1,
                            !.runs = Append(@, [pc |-> "shouldUpdate", data |-> defaultData])]
  /\ UNCHANGED allButDaily

\* await this.shouldUpdateDaily()
dailyShouldUpdate(i) ==
  /\ RunAt(i, "shouldUpdate")
  /\ \E readable \in BOOLEAN :
       daily' = [daily EXCEPT !.runs[i].pc =
                   IF shouldUpdateDaily(daily, readable) THEN "generate" ELSE "cached"]
  /\ UNCHANGED allButDaily

\* getUserActivity, generateEcoScore, generateDailyTip, generateDailyChallenge
dailyGenerate(i) ==
  /\ RunAt(i, "generate")
  /\ daily' = [daily EXCEPT !.runs[i].pc = "store",
                            !.runs[i].data = [id |-> "generated", day |-> daily.day],
                            !.computed = Append(@, [day |-> daily.day, hour |-> daily.hour])]
  /\ UNCHANGED allButDaily

\* cacheDailyData, whose failures are swallowed, then the timestamp; a setItem of
\* the timestamp that throws lands in the catch block: cached data, updated false
dailyStore(i) ==
  /\ RunAt(i, "store")
  /\ \E cached \in BOOLEAN, stamped \in BOOLEAN :
       LET cache == IF cached THEN <<daily.runs[i].data>> ELSE daily.cache
       IN  IF stamped
           THEN daily' = [daily EXCEPT !.cache = cache,
                                       !.lastUpdate = <<daily.day>>,
                                       !.runs = RunsWithout(i),
                                       !.results = Append(@, [data |-> daily.runs[i].data,
                                                              day |-> daily.day,
                                                              updated |-> TRUE])]
           ELSE daily' = [daily EXCEPT !.cache = cache, !.runs[i].pc = "cached"]
  /\ UNCHANGED allButDaily

\* return { ...cachedData, updated: false }
dailyCached(i) ==
  /\ RunAt(i, "cached")
  /\ daily' = [daily EXCEPT !.runs = RunsWithout(i),
                            !.results = Append(@, [data |-> getCachedDailyData(daily),
                                                   day |-> daily.day,
                                                   updated |-> FALSE])]
  /\ UNCHANGED allButDaily

\* the local clock passes noon, or midnight
tick ==
  /\ IF daily.hour < Noon
     THEN daily' = [daily EXCEPT !.hour = Noon]
     ELSE /\ daily.day < MaxDays
          /\ daily' = [daily EXCEPT !.day = @ + 1, !.hour = Noon - 1]
  /\ UNCHANGED allButDaily

InitDaily == InitWith(0, {EmptyDb})

NextDaily ==
  \/ performDailyUpdate
  \/ tick
  \/ \E i \in 1..MaxInFlight :
       \/ dailyShouldUpdate(i)
       \/ dailyGenerate(i)
       \/ dailyStore(i)
       \/ dailyCached(i)

SpecDaily == InitDaily /\ [][NextDaily]_vars


(***************************************************************************)
(* Claims on the reducer                                                   *)
(***************************************************************************)
\* C1: from a snapshot whose views agree, after every UPDATE_POST, TOGGLE_LIKE,
\* ADD_COMMENT or DELETE_COMMENT a post held by several views has the same
\* like_count, comment_count and is_liked in each of them.
C1_ViewsAgreeAfterEachTransition == ViewsAgree(state)

\* C1 witness: post 1 is in all three views, and a like toggle and then the deletion
\* of one of its comments have changed it.
C1_Witness ==
  /\ Len(hist) = 2
  /\ InAllViews(state, 1)
  /\ hist[1].action.type = "TOGGLE_LIKE"
  /\ hist[1].action.payload.postId = 1
  /\ hist[2].action.type = "DELETE_COMMENT"
  /\ Column(state, "like_count") # Column(hist[1].before, "like_count")
  /\ Column(state, "comment_count") # Column(hist[1].before, "comment_count")

\* C9: after any transitions, and in particular after DELETE_COMMENT (also of an
\* identifier that is no longer in the thread), no comment_count in posts,
\* userPosts or currentPost is below zero.
C9_CommentCountNeverNegative ==
  \A e \in Entries(state) : OrZero(EntryAt(state, e), "comment_count") >= 0

\* C9 witness: DELETE_COMMENT of a comment whose post showed comment_count 0, then
\* DELETE_COMMENT of the same identifier again.
C9_Witness ==
  /\ Len(hist) = 2
  /\ hist[1].action.type = "DELETE_COMMENT" /\ hist[1].action.payload = 1
  /\ hist[2].action.type = "DELETE_COMMENT" /\ hist[2].action.payload = 1
  /\ findComment(hist[1].before, 1) # <<>>
  /\ InView(hist[1].before.posts, 1)
  /\ \A i \in 1..Len(hist[1].before.posts) :
        hist[1].before.posts[i].id = 1 => hist[1].before.posts[i].comment_count = 0

IsToggle(h, id, liked, delta) ==
  /\ h.action.type = "TOGGLE_LIKE"
  /\ h.action.payload = [postId |-> id, isLiked |-> liked, likeDelta |-> delta]

\* C10: TOGGLE_LIKE(postId, true, +1) followed immediately by
\* TOGGLE_LIKE(postId, false, -1) leaves every like_count of every view as it was
\* before the pair.
C10_LikeRoundTrip ==
  \A id \in 1..(NumPosts + 1) :
     (Len(hist) = 2 /\ IsToggle(hist[1], id, TRUE, 1) /\ IsToggle(hist[2], id, FALSE, -1))
        => Column(state, "like_count") = Column(hist[1].before, "like_count")

\* C10 witness: the pair has been applied to post 1, held by all three views, and
\* the first toggle did change its like_count.
C10_Witness ==
  /\ Len(hist) = 2
  /\ IsToggle(hist[1], 1, TRUE, 1)
  /\ IsToggle(hist[2], 1, FALSE, -1)
  /\ InAllViews(state, 1)
  /\ Column(hist[2].before, "like_count") # Column(state, "like_count")


(***************************************************************************)
(* Claims on the provider                                                  *)
(***************************************************************************)
Counters(post) ==
  <<OrZero(post, "like_count"), OrZero(post, "comment_count"), Liked(post)>>

\* C2: in every snapshot reachable through the provider's actions (the fetches that
\* dispatch SET_POSTS, SET_USER_POSTS and SET_CURRENT_POST included), a post held
\* by several views has the same like_count, comment_count and is_liked in each.
C2_ViewsAgreeInEveryReachableSnapshot ==
  \A e1, e2 \in Entries(state) :
     EntryAt(state, e1).id = EntryAt(state, e2).id
        => Counters(EntryAt(state, e1)) = Counters(EntryAt(state, e2))

\* C3: the feed was fetched with nothing else going on and every view showed the
\* like rows of the watched post as the store held them; since then only this user's
\* toggleLike calls on the watched post have run, overlapping or not, and no other
\* user has touched it. Once they have all resolved, the local is_liked of the post
\* is the existence of the user's like row, and the local like_count has moved by
\* the net change in the number of like rows.
C3_LocalMatchesRemoteAfterToggles ==
  (Quiescent /\ mark.kind = "base")
     => \A e \in Entries(state) :
           EntryAt(state, e).id = Watched
              => /\ Liked(EntryAt(state, e)) = HasLike(db, Watched, Me)
                 /\ OrZero(EntryAt(state, e), "like_count")
                      - OrZero(EntryAt(mark.before, e), "like_count")
                    = Cardinality(LikesOf(db, Watched)) - mark.rows

\* the like fields of the watched post in every view of a snapshot
LikeFields(s) ==
  {<<e, Liked(EntryAt(s, e)), OrZero(EntryAt(s, e), "like_count")>> :
     e \in {x \in Entries(s) : EntryAt(s, x).id = Watched}}

\* the like fields with the flag flipped and the count moved by one towards it
Flipped(fields) ==
  {<<f[1], ~f[2], IF f[2] THEN f[3] - 1 ELSE f[3] + 1>> : f \in fields}

\* like toggles have run one after the other from the baseline, and all succeeded
SequentialToggles == mark.kind = "base" /\ ~mark.overlap /\ ~mark.failed

\* C11: from a feed that shows the like rows of the store, with no other user
\* touching the post, two toggleLike calls of which the second starts after the
\* first has resolved: the first flips is_liked and moves like_count by one towards
\* it, the second restores both.
C11_SequentialTogglesFlipAndRestore ==
  SequentialToggles
     => /\ Len(mark.after) >= 1
           => LikeFields(mark.after[1]) = Flipped(LikeFields(mark.before))
        /\ Len(mark.after) >= 2
           => LikeFields(mark.after[2]) = LikeFields(mark.before)

\* C11 witness: from is_liked false the two calls have resolved in sequence.
C11_Witness ==
  /\ SequentialToggles
  /\ Len(mark.after) = 2
  /\ Quiescent
  /\ \A f \in LikeFields(mark.before) : ~f[2]
  /\ LikeFields(mark.after[1]) # LikeFields(mark.before)

\* C4: when the insert of a like is rejected by the uniqueness constraint on
\* (post_id, user_id), toggleLike reports isLiked = TRUE and no error, and the
\* store dispatches no SET_ERROR for the call.
C4_DuplicateLikeIsAlreadyLiked ==
  (last.op = "toggleLike" /\ "unique violation" \in last.reqs)
     => /\ last.res.isLiked
        /\ last.res.error = NoError
        /\ \A k \in 1..Len(last.dispatched) : last.dispatched[k] # "SET_ERROR"

\* C6: createPost with an image whose upload fails returns a failure and inserts no
\* row, with text content or without.
C6_FailedUploadAbortsCreation ==
  (last.op = "createPost" /\ "upload failed" \in last.reqs)
     => /\ ~last.returned
        /\ last.res.error # NoError
        /\ "insert posts" \notin last.reqs

EmptyPost(arg) == arg.content = <<>> /\ ~arg.image

\* the gateway's createPost has run for an empty post
CreatedEmpty == last.op = "createPost" /\ last.res # NotCalled /\ EmptyPost(last.arg)

C8_LikeCountNeverNegative ==
  \A e \in Entries(state) : OrZero(EntryAt(state, e), "like_count") >= 0

(***************************************************************************)
(* Claims on the moderation service                                        *)
(***************************************************************************)
\* C5: when every generateContent call throws, times out or returns unparsable
\* text, validatePostContent returns isValid = TRUE with a low confidence, for
\* every post text, and handleSubmit goes on to submit the post.
C5_FailOpenWhenAdapterUnavailable ==
  (vout.phase = "done" /\ AdapterUnavailable(vin))
     => /\ vout.validation.isValid
        /\ vout.validation.confidence <= 3
        /\ vout.submitted

(***************************************************************************)
(* Claims on the comment thread                                            *)
(***************************************************************************)
\* the last call resolved was a deleteComment whose delete matched no row: the
\* comment is another user's, or is not in the store
DeletedNothing == last.op = "deleteComment" /\ "no row deleted" \in last.reqs

\* C12 as stated: deleteComment on a comment the actor does not own, or that no
\* longer exists, returns a failure result and dispatches no DELETE_COMMENT, so
\* the local thread and every comment_count stay as they were.
C12_DeleteOfForeignCommentFails ==
  DeletedNothing
     => /\ last.res.error # NoError
        /\ ~last.returned
        /\ \A k \in 1..Len(last.dispatched) : last.dispatched[k] # "DELETE_COMMENT"

(***************************************************************************)
(* Claims on failing requests                                              *)
(***************************************************************************)
Content(s) == <<s.posts, s.userPosts, s.currentPost, s.comments>>

\* the step on which call i resolves, when its gateway operation returned an error
\* or caught an exception
ResolvesFailure(i) ==
  /\ InFlight(i)
  /\ calls[i].pc = "return"
  /\ calls[i].res.error # NoError
  /\ calls' = Without(i)

\* C13: when the gateway call of a context action returns an error or throws, the
\* action's continuation leaves posts, userPosts, currentPost and comments exactly
\* as they were; only error, loading and refreshing may change.
C13_FailureDispatchesNoContent ==
  [][\A i \in 1..MaxInFlight : ResolvesFailure(i) => Content(state') = Content(state)]_vars

\* C13 witness: a call whose request failed has resolved with SET_ERROR alone while
\* the feed holds posts.
C13_Witness ==
  /\ last.op # "none"
  /\ last.reqs \cap {"threw", "error response"} # {}
  /\ last.res.error # NoError
  /\ last.dispatched = <<"SET_ERROR">>
  /\ state.posts # <<>>
  /\ state.error # Null

\* the shapes a gateway result takes: data (null as the empty sequence), isLiked and
\* an error field holding null, a string or an error object
HasErrorField(res) ==
  /\ DOMAIN res = {"data", "isLiked", "error"}
  /\ res.error.kind \in {"null", "string", "object"}

\* C14: every PostsService operation resolves with a result value that carries an
\* error field, whatever its remote calls do: succeed, return an error, return no
\* data or throw. None of them rejects.
C14_EveryOperationResolvesWithAResult ==
  /\ \A i \in 1..Len(calls) : calls[i].pc = "return" => HasErrorField(calls[i].res)
  /\ (last.op # "none" /\ last.res # NotCalled) => HasErrorField(last.res)

\* C14 witness: a gateway operation one of whose requests threw has resolved with
\* the exception in the error field of its result.
C14_Witness ==
  /\ last.op # "none"
  /\ "threw" \in last.reqs
  /\ last.res.error = Thrown
  /\ last.res.data = <<>>

\* the last call resolved was a deletePost by the owner that reached the removal of
\* the stored image, and the removal returned an error or threw
ImageRemovalFailed ==
  /\ last.op = "deletePost"
  /\ "remove" \in last.reqs
  /\ last.reqs \cap {"threw", "error response"} # {}

\* C19 as stated: deletePost deletes the post row whatever the removal of the stored
\* image does; a removal that returns an error or throws neither prevents the row
\* deletion nor turns the result into a failure.
C19_ImageRemovalFailureDoesNotStopDeletion ==
  ImageRemovalFailed
     => /\ last.res.error = NoError
        /\ last.returned
        /\ "delete posts" \in last.reqs
        /\ ~\E r \in db.posts : r.id = last.arg.postId

\* C20 as stated: a PostsService operation that finds no authenticated actor makes
\* no request on posts, comments, likes or the object storage: it returns "User not
\* authenticated" after the auth lookup alone.
C20_NoRequestWithoutActor ==
  (last.op # "none" /\ last.res # NotCalled /\ last.user = NoUser)
     => /\ last.reqs \subseteq {"auth"}
        /\ last.res.error = StringError("User not authenticated")

(***************************************************************************)
(* Claims on single transitions of the reducer                             *)
(***************************************************************************)
\* the dispatch that led to the current snapshot
LastDispatch == hist[Len(hist)]

\* the last dispatch was DELETE_COMMENT of a comment that was in the thread
DeletedFromThread ==
  /\ hist # <<>>
  /\ LastDispatch.action.type = "DELETE_COMMENT"
  /\ findComment(LastDispatch.before, LastDispatch.action.payload) # <<>>

\* the post of a comment in the thread of snapshot s
ParentOf(s, id) == findComment(s, id)[1].post_id

\* view `after` is view `before` with the comment_count of post pid one lower (in
\* LoweredToFloor: one lower, but not below zero), every other entry and field as
\* it was
LoweredByOne(before, after, pid) ==
  /\ Len(after) = Len(before)
  /\ \A i \in 1..Len(before) :
        after[i] = IF before[i].id = pid
                   THEN Spread(before[i],
                               [comment_count |-> OrZero(before[i], "comment_count") - 1])
                   ELSE before[i]

LoweredToFloor(before, after, pid) ==
  /\ Len(after) = Len(before)
  /\ \A i \in 1..Len(before) :
        after[i] = IF before[i].id = pid
                   THEN Spread(before[i],
                               [comment_count |->
                                  Max(OrZero(before[i], "comment_count") - 1, 0)])
                   ELSE before[i]

ThreadWithout(before, id) ==
  LET Keep(comment) == comment.id # id
  IN  SelectSeq(before.comments, Keep)

\* C15 as stated: DELETE_COMMENT of a comment in the thread removes it and lowers by
\* one the comment_count of its parent post in posts, userPosts and currentPost
\* alike; all other posts and comments are unchanged.
C15_DeleteCommentLowersCountByOne ==
  DeletedFromThread
     => LET b == LastDispatch.before
            id == LastDispatch.action.payload
        IN  /\ state.comments = ThreadWithout(b, id)
            /\ LoweredByOne(b.posts, state.posts, ParentOf(b, id))
            /\ LoweredByOne(b.userPosts, state.userPosts, ParentOf(b, id))
            /\ LoweredByOne(b.currentPost, state.currentPost, ParentOf(b, id))

\* C15 amended: DELETE_COMMENT of a comment in the thread removes it and lowers by
\* one, but never below zero, the comment_count of its parent post in posts,
\* userPosts and currentPost alike; all other posts and comments are unchanged.
C15_DeleteCommentLowersCountToFloor ==
  DeletedFromThread
     => LET b == LastDispatch.before
            id == LastDispatch.action.payload
        IN  /\ state.comments = ThreadWithout(b, id)
            /\ LoweredToFloor(b.posts, state.posts, ParentOf(b, id))
            /\ LoweredToFloor(b.userPosts, state.userPosts, ParentOf(b, id))
            /\ LoweredToFloor(b.currentPost, state.currentPost, ParentOf(b, id))

\* C15 witness: DELETE_COMMENT of comment 1 of post 1, which all three views held
\* with a comment_count of 1 next to another post in the feed, and which now shows 0
\* in all three.
C15_Witness ==
  /\ DeletedFromThread
  /\ LastDispatch.action.payload = 1
  /\ InAllViews(LastDispatch.before, 1)
  /\ InView(LastDispatch.before.posts, 2)
  /\ Column(LastDispatch.before, "comment_count") # Column(state, "comment_count")
  /\ \A e \in Entries(state) :
        EntryAt(state, e).id = 1 => EntryAt(state, e).comment_count = 0

(***************************************************************************)
(* Claims on post creation                                                 *)
(***************************************************************************)
\* the step on which createPost, whose gateway operation returned the new post,
\* resolves
ResolvesCreated(i) ==
  /\ At(i, "createPost", "return")
  /\ calls[i].res.error = NoError
  /\ calls[i].res.data # <<>>
  /\ calls' = Without(i)

\* the feeds after the step are the new post followed by the feeds before it
Prepended(i) ==
  /\ state'.posts = <<calls[i].res.data[1]>> \o state.posts
  /\ state'.userPosts = <<calls[i].res.data[1]>> \o state.userPosts

\* C16 as stated: a successful createPost adds the new post in one transition at
\* index 0 of the global feed and of the user feed, the previous entries following
\* in order; the new entry has like_count 0, comment_count 0 and is_liked false.
C16_CreatedPostIsFirstAndNotLiked ==
  [][\A i \in 1..MaxInFlight :
       ResolvesCreated(i)
          => /\ Prepended(i)
             /\ state'.posts[1].like_count = 0
             /\ state'.posts[1].comment_count = 0
             /\ "is_liked" \in DOMAIN state'.posts[1]
             /\ state'.posts[1].is_liked = FALSE]_vars

\* C16 amended: a successful createPost adds the new post in one transition at
\* index 0 of the global feed and of the user feed, the previous entries following
\* in order; the new entry is the row of posts_with_stats, with like_count 0 and
\* comment_count 0 and without an is_liked flag (the flag is undefined, not false).
C16_CreatedPostIsFirstWithoutLikeFlag ==
  [][\A i \in 1..MaxInFlight :
       ResolvesCreated(i)
          => /\ Prepended(i)
             /\ state'.posts[1].like_count = 0
             /\ state'.posts[1].comment_count = 0
             /\ "is_liked" \notin DOMAIN state'.posts[1]]_vars

\* C16 witness: createPost has resolved with the new post, which is first in a feed
\* that held the two earlier posts and first in the user feed.
C16_Witness ==
  /\ last.op = "createPost"
  /\ last.returned
  /\ Len(state.posts) = 3
  /\ state.posts[1] = last.res.data[1]
  /\ state.userPosts # <<>>
  /\ state.userPosts[1] = last.res.data[1]
  /\ state.posts[2].id = 2
  /\ state.posts[3].id = 1

(***************************************************************************)
(* Claims on clearCurrentPost                                              *)
(***************************************************************************)
\* the step is a dispatch of CLEAR_CURRENT_POST
Clears ==
  /\ steps' # steps
  /\ hist'[Len(hist')].action.type = "CLEAR_CURRENT_POST"

Cleared(s) == s.currentPost = <<>> /\ s.comments = <<>>

\* C17: CLEAR_CURRENT_POST always yields currentPost = null and an empty thread,
\* also when no current post is set; applied to a snapshot it has already cleared
\* it changes nothing (twice is once); posts, userPosts, error, loading and
\* refreshing are as before.
C17_ClearCurrentPost ==
  [][Clears
       => /\ Cleared(state')
          /\ state'.posts = state.posts
          /\ state'.userPosts = state.userPosts
          /\ state'.error = state.error
          /\ state'.loading = state.loading
          /\ state'.refreshing = state.refreshing
          /\ Cleared(state) => state' = state]_vars

\* C17 witness: CLEAR_CURRENT_POST was dispatched twice in a row, the first time on
\* a snapshot with a current post, a thread and an error, the second time on the
\* snapshot the first one left.
C17_Witness ==
  /\ Len(hist) = 2
  /\ hist[1].action.type = "CLEAR_CURRENT_POST"
  /\ hist[2].action.type = "CLEAR_CURRENT_POST"
  /\ hist[1].before.currentPost # <<>>
  /\ hist[1].before.comments # <<>>
  /\ hist[1].before.error # Null
  /\ Cleared(hist[2].before)
  /\ hist[2].before.error = hist[1].before.error
  /\ state = hist[2].before

(***************************************************************************)
(* Claims on the submission of a validated post                            *)
(***************************************************************************)
\* handleSubmit has run to its end on a post the validation judged invalid
JudgedInvalid == vout.phase = "done" /\ ~vout.validation.isValid

\* C18: handleSubmit calls onSubmit (the context's createPost, and through it the
\* gateway) only for a submission whose validation result has isValid = TRUE; a
\* submission judged invalid is never submitted, and its reasons and its
\* suggestions are in the modal's validation error.
C18_OnlyValidPostsAreSubmitted ==
  /\ (vout.phase # "none" /\ vout.submitted)
        => (vout.phase = "done" /\ vout.validation.isValid)
  /\ JudgedInvalid
        => /\ ~vout.submitted
           /\ vout.validationError # <<>>
           /\ vout.validationError[1].reasons = vout.validation.reasons
           /\ \A k \in 1..Len(vout.validation.suggestions) :
                 /\ k <= Len(vout.validationError[1].suggestions)
                 /\ vout.validationError[1].suggestions[k] = vout.validation.suggestions[k]

\* C18 witness: a post judged invalid by the adapter, with a reason and a suggestion
\* of the adapter, was not submitted and both are in the validation error.
C18_Witness ==
  /\ JudgedInvalid
  /\ ~vout.submitted
  /\ vout.validation.reasons # <<>>
  /\ vout.validation.suggestions = <<"adapter suggestion">>
  /\ vout.validationError[1].reasons = vout.validation.reasons
  /\ vout.validationError[1].suggestions = <<"adapter suggestion">>

(***************************************************************************)
(* Claims on the content of comments                                       *)
(***************************************************************************)
\* the last call resolved was an addComment or updateComment that reached the
\* gateway with a content that is empty once trimmed
BlankComment ==
  /\ last.op \in {"addComment", "updateComment"}
  /\ last.res # NotCalled
  /\ trim(last.arg.content) = <<>>

\* C21: addComment and updateComment with a content that is empty after trimming
\* return a failure without an insert or update request, and no comment whose
\* trimmed content is empty is in the store or in the thread.
C21_BlankCommentIsNeverWritten ==
  /\ BlankComment
        => /\ last.res.error # NoError
           /\ ~last.returned
           /\ last.reqs \cap {"insert comments", "update comments"} = {}
           /\ \A k \in 1..Len(last.dispatched) :
                 last.dispatched[k] \notin {"ADD_COMMENT", "UPDATE_COMMENT"}
  /\ \A r \in db.comments : trim(r.content) # <<>>
  /\ \A k \in 1..Len(state.comments) : trim(state.comments[k].content) # <<>>

\* C21 witness: the signed-in user's updateComment with a blank content has resolved
\* with the validation failure after the auth lookup alone.
C21_Witness ==
  /\ BlankComment
  /\ last.op = "updateComment"
  /\ last.user = Me
  /\ last.reqs = {"auth"}
  /\ last.res.error = StringError("Comment content cannot be empty")
  /\ state.error # Null

(***************************************************************************)
(* Claims on the daily analytics                                           *)
(***************************************************************************)
ComputedOn(d) == {k \in 1..Len(daily.computed) : daily.computed[k].day = d}

UpdatedOn(d) ==
  {k \in 1..Len(daily.results) : daily.results[k].day = d /\ daily.results[k].updated}

\* C22 as stated: the daily computation runs at most once per local calendar day
\* and never before 12:00, for any sequence of performDailyUpdate calls, overlapping
\* ones included; at most one call per day returns updated = true.
C22_OneDailyComputationAfterNoon ==
  /\ \A d \in 1..MaxDays : Cardinality(ComputedOn(d)) <= 1
  /\ \A k \in 1..Len(daily.computed) : daily.computed[k].hour >= Noon
  /\ \A d \in 1..MaxDays : Cardinality(UpdatedOn(d)) <= 1

(***************************************************************************)
(* Claims on the frame of the reducer's transitions                        *)
(***************************************************************************)
\* the last dispatch has type ty
Did(ty) == hist # <<>> /\ LastDispatch.action.type = ty

\* the post id, or the comment id, the last dispatch refers to
PostIdOf(action) ==
  IF action.type = "DELETE_POST" THEN action.payload ELSE action.payload.postId

CommentIdOf(action) ==
  IF action.type = "DELETE_COMMENT" THEN action.payload ELSE action.payload.commentId

\* C23: UPDATE_POST, DELETE_POST and TOGGLE_LIKE leave unchanged every collection
\* the post id is absent from, UPDATE_COMMENT and DELETE_COMMENT leave the thread
\* unchanged when the comment id is absent from it; when the id is absent from
\* every collection, posts, userPosts, currentPost and comments are all unchanged
\* and the error is as it was.
C23_AbsentIdIsNoOp ==
  /\ (Did("UPDATE_POST") \/ Did("DELETE_POST") \/ Did("TOGGLE_LIKE"))
        => LET b == LastDispatch.before
               id == PostIdOf(LastDispatch.action)
           IN  /\ ~InView(b.posts, id) => state.posts = b.posts
               /\ ~InView(b.userPosts, id) => state.userPosts = b.userPosts
               /\ ~InView(b.currentPost, id) => state.currentPost = b.currentPost
               /\ (~InView(b.posts, id) /\ ~InView(b.userPosts, id)
                     /\ ~InView(b.currentPost, id))
                    => Content(state) = Content(b) /\ state.error = b.error
  /\ (Did("UPDATE_COMMENT") \/ Did("DELETE_COMMENT"))
        => LET b == LastDispatch.before
               id == CommentIdOf(LastDispatch.action)
           IN  ~InView(b.comments, id)
                  => Content(state) = Content(b) /\ state.error = b.error

\* C23 witness: TOGGLE_LIKE of post 1, which the feed held and the user feed and the
\* current post did not, changed the feed and nothing else.
C23_Witness ==
  /\ Did("TOGGLE_LIKE")
  /\ LastDispatch.action.payload.postId = 1
  /\ InView(LastDispatch.before.posts, 1)
  /\ ~InView(LastDispatch.before.userPosts, 1)
  /\ ~InView(LastDispatch.before.currentPost, 1)
  /\ LastDispatch.before.userPosts # <<>>
  /\ state.posts # LastDispatch.before.posts
  /\ state.userPosts = LastDispatch.before.userPosts

\* C24: the error slot changes only through SET_ERROR and CLEAR_ERROR: every other
\* transition leaves error as it was, and SET_ERROR puts its payload in place of
\* whatever error was there.
C24_ErrorChangesOnlyBySetAndClear ==
  hist # <<>>
     => /\ LastDispatch.action.type \notin {"SET_ERROR", "CLEAR_ERROR"}
              => state.error = LastDispatch.before.error
        /\ LastDispatch.action.type = "SET_ERROR"
              => state.error = LastDispatch.action.payload

\* C24 witness: SET_ERROR replaced an earlier error, and the SET_POSTS that followed
\* left the new error in place.
C24_Witness ==
  /\ Len(hist) = 2
  /\ hist[1].action.type = "SET_ERROR"
  /\ hist[1].before.error = "Failed to fetch posts"
  /\ hist[1].action.payload = "Failed to create post"
  /\ hist[2].action.type = "SET_POSTS"
  /\ hist[2].before.error = "Failed to create post"
  /\ state.error = "Failed to create post"

\* C25: in every snapshot the provider can reach, a null currentPost means an empty
\* comment thread: no transition leaves comments behind without a current post.
C25_NoCommentsWithoutCurrentPost ==
  state.currentPost = <<>> => state.comments = <<>>

\* C26: in every snapshot the provider can reach, all posts of userPosts have one and
\* the same user_id: no transition, ADD_POST after the actor's createPost included,
\* puts a post of another owner into the user feed.
C26_UserFeedHasOneOwner ==
  \A i, j \in 1..Len(state.userPosts) :
     state.userPosts[i].user_id = state.userPosts[j].user_id

\* C27: all comments of the thread have one and the same post_id, under every
\* interleaving of fetchComments, addComment and deleteComment, an addComment for
\* one post that resolves after the fetchComments for another post included.
C27_ThreadHasOnePost ==
  \A i, j \in 1..Len(state.comments) :
     state.comments[i].post_id = state.comments[j].post_id

\* C28: the post ids within posts are pairwise distinct, and so are those within
\* userPosts, under every interleaving of the completions of createPost, fetchPosts
\* and fetchUserPosts, a fetch that returns the new row before the ADD_POST included.
C28_PostIdsAreDistinct ==
  /\ \A i, j \in 1..Len(state.posts) :
        state.posts[i].id = state.posts[j].id => i = j
  /\ \A i, j \in 1..Len(state.userPosts) :
        state.userPosts[i].id = state.userPosts[j].id => i = j

\* the one call in flight is a fetchPosts whose gateway call has returned rows
StaleFetchReturns ==
  /\ Len(calls) = 1
  /\ calls[1].op = "getPosts" /\ calls[1].pc = "return" /\ calls[1].res.error = NoError

\* C29: a toggleLike was confirmed by the store and its TOGGLE_LIKE applied, so that
\* the feed shows the like rows of the post as the store holds them; a fetchPosts that
\* completes after it, with nothing else in flight, does not put the feed back: once
\* it has resolved the feed still shows the like rows as the store holds them.
C29_FetchDoesNotRevertToggle ==
  [][(/\ StaleFetchReturns
      /\ last.op = "toggleLike" /\ last.returned
      /\ InSync(state, db)
      /\ calls' = <<>>)
        => InSync(state', db')]_vars

\* the operations that announce their gateway call with SET_LOADING or SET_REFRESHING
Announced == {"getPosts", "getUserPosts", "getPost", "getPostComments",
              "createPost", "updatePost", "deletePost"}

\* C30: while one of fetchPosts, fetchUserPosts, fetchPost, fetchComments, createPost,
\* updatePost and deletePost is between the start of its gateway call and the dispatch
\* of its result, and no other operation is in flight, loading is true (refreshing,
\* for fetchPosts(true)).
C30_LoadingWhileInFlight ==
  (Len(calls) = 1 /\ calls[1].op \in Announced)
     => IF calls[1].op = "getPosts" /\ calls[1].arg.refresh
        THEN state.refreshing
        ELSE state.loading

====
